---- MODULE Spec2Model ----
(***************************************************************************)
(* Model of the "download once, cache, read back" mechanism of pubdata:    *)
(* the cacher decorator and the source getters of cbp.py, the hand-written *)
(* exists-check caches of cbp.py and geography.py, the partitioned stores  *)
(* of agcensus.py and qcew.py, the builder loops and the cleanup functions.*)
(*                                                                         *)
(* The disk is a function from paths (sequences of path components) to     *)
(* file contents.  A call of a Python function is an operator on a call   *)
(* context c: the disk and directories it sees, the value it returns      *)
(* (c.ret), the exception that is propagating (c.err) and the record of   *)
(* what the call did (producers invoked, downloads, files written).       *)
(***************************************************************************)
EXTENDS Integers, Sequences, FiniteSets, TLC

VARIABLES disk,     \* path -> content of every file that exists
          dirs,     \* the directories that exist
          remote,   \* revision of the data the remote servers publish now
          built,    \* cache paths dumped successfully and not removed since
          last,     \* the last call: operation, arguments and what it did
          procs,    \* the calls that processes running side by side are in
          held      \* the filters list a caller keeps between its calls

vars == <<disk, dirs, remote, built, last, procs, held>>

(***************************************************************************)
(* Bounds of the model.                                                    *)
(***************************************************************************)
MaxVersion == 2     \* revisions the remote data goes through
MaxItems == 2       \* items in a list of codes given to _split_codes
MaxFilters == 3     \* predicates in a filters list that a caller keeps

\* Key spaces of the calls.  2016 is the last CBP year with EFSY data
\* (cbp.py:463), so get_cbp_year takes its longest path.
Years == {2016}
Geos == <<"us", "state", "county">>
GeoSet == {Geos[i] : i \in 1..Len(Geos)}

NoErr == "none"
Faults == {"none", "download", "download_partial", "producer", "dump", "dump_partial", "load"}
\* the download succeeds, but the file holds a row of another year
PartFaults == Faults \cup {"download_skewed"}

(***************************************************************************)
(* Paths (pathlib).                                                        *)
(***************************************************************************)
parent(p) == SubSeq(p, 1, Len(p) - 1)
IsPrefix(r, p) == Len(r) <= Len(p) /\ SubSeq(p, 1, Len(r)) = r
Ancestors(p) == {SubSeq(p, 1, n) : n \in 1..(Len(p) - 1)}

exists(c, p) == p \in DOMAIN c.disk \/ p \in c.dirs

\* Path.mkdir(parents=True, exist_ok=True)
mkdir(c, d) == [c EXCEPT !.dirs = @ \cup Ancestors(d) \cup {d}]

\* shutil.rmtree(root, ignore_errors=True) on a disk / on a set of directories
rmtree_files(d, root) == [p \in {q \in DOMAIN d : ~IsPrefix(root, q)} |-> d[p]]
rmtree_dirs(ds, root) == {q \in ds : ~IsPrefix(root, q)}

PutFile(d, p, content) == [q \in DOMAIN d \cup {p} |-> IF q = p THEN content ELSE d[q]]

\* str(year)[2:] of a four-digit year
yr(year) == IF year % 100 < 10 THEN "0" \o ToString(year % 100) ELSE ToString(year % 100)

\* str.format on a template with positional "{}" placeholders: pieces are
\* the literal parts of the template around the placeholders, args the
\* str() of the arguments
RECURSIVE format(_, _)
format(pieces, args) ==
  IF Len(pieces) = 1 THEN pieces[1]
  ELSE pieces[1] \o args[1] \o format(Tail(pieces), Tail(args))

\* pathlib.Path(s): the components of s between the slashes, empty ones
\* and "." left out
RECURSIVE PathParts(_, _)
PathParts(s, cur) ==
  IF s = "" THEN (IF cur \in {"", "."} THEN <<>> ELSE <<cur>>)
  ELSE IF SubSeq(s, 1, 1) = "/"
    THEN (IF cur \in {"", "."} THEN <<>> ELSE <<cur>>) \o PathParts(SubSeq(s, 2, Len(s)), "")
  ELSE PathParts(SubSeq(s, 2, Len(s)), cur \o SubSeq(s, 1, 1))

Path(s) == PathParts(s, "")

\* the keys the cached functions of cbp.py are called with: the
\* geographies, and the years of the EFSY data and of the builder loops
KeyGeos == {"us", "state", "county"}
KeyYears == 1975..2021

(***************************************************************************)
(* Call contexts.                                                          *)
(***************************************************************************)
\* Only({B : x \in {E}}) is B with x standing for the value of E, which is
\* worked out once: the statements of a function are read from the last
\* binding (the first statement) up to B (what the function returns).
Only(S) == CHOOSE x \in S : TRUE

Nothing == [none |-> TRUE]

Enter(fault) ==
  [disk |-> disk, dirs |-> dirs, fault |-> fault, err |-> NoErr, ret |-> Nothing,
   invoked |-> <<>>, downloaded |-> <<>>, dumped |-> {}, filters |-> Nothing]

Raise(c, e) == [c EXCEPT !.err = e, !.ret = Nothing]
Return(c, v) == [c EXCEPT !.ret = v]
Failing(c, kind) == c.fault = kind
Spent(c) == [c EXCEPT !.fault = "none"]

(***************************************************************************)
(* Files and tables.  A truncated file is what an interrupted write leaves. *)
(***************************************************************************)
Truncated == [complete |-> FALSE]
IsComplete(f) == f.complete

\* what the server publishes at url, at revision v
RemoteFile(url, v, skewed) == [complete |-> TRUE, url |-> url, v |-> v, skewed |-> skewed]

\* pandas: a frame has a data part and an index; read_csv, merge and
\* read_parquet give a fresh RangeIndex.
DataFrame(data) == [data |-> data, index |-> "range", geometry |-> FALSE]

\* DataFrame.to_parquet(path, index=False): the index is not written
to_parquet(o) == [complete |-> TRUE, data |-> o.data]
\* pd.read_parquet(path)
read_parquet(f) == [data |-> f.data, index |-> "range", geometry |-> FALSE]

(***************************************************************************)
(* Primitives that can fail.  The fault of a call names the kind of        *)
(* primitive that raises the first time the call reaches one.              *)
(***************************************************************************)

\* reseng.util.download_file(url, dir, fname): creates dir, keeps a file that
\* is already there, otherwise fetches url into dir/fname; returns the path.
\* An url is the sequence of its path components; fname defaults to the last.
download_file(cc, url, dir, fname) ==
  Only({ Only({
    IF c.err # NoErr THEN c
    ELSE IF dir \o <<fname>> \in DOMAIN c1.disk THEN Return(c1, dir \o <<fname>>)
    ELSE IF Failing(c1, "download") THEN Raise(Spent(c1), "DownloadError")
    ELSE IF Failing(c1, "download_partial")
      THEN Raise(Spent([c1 EXCEPT !.disk = PutFile(@, dir \o <<fname>>, Truncated)]), "DownloadError")
    ELSE IF Failing(c1, "download_skewed")
      THEN Return(Spent([c1 EXCEPT !.disk = PutFile(@, dir \o <<fname>>, RemoteFile(url, remote, TRUE)),
                                   !.downloaded = Append(@, dir \o <<fname>>)]),
                  dir \o <<fname>>)
    ELSE Return([c1 EXCEPT !.disk = PutFile(@, dir \o <<fname>>, RemoteFile(url, remote, FALSE)),
                           !.downloaded = Append(@, dir \o <<fname>>)],
                dir \o <<fname>>)
      : c1 \in {mkdir(c, dir)} })
      : c \in {cc} })

url_name(url) == url[Len(url)]

\* a step of a producer that can raise (a failed assert, a missing column)
compute(cc) ==
  Only({
    IF c.err # NoErr THEN c
    ELSE IF Failing(c, "producer") THEN Raise(Spent(c), "ProducerError")
    ELSE c
      : c \in {cc} })

\* pd.read_csv / read_excel / zipfile on the source file whose path is c.ret
read_src(cc) ==
  Only({
    IF c.err # NoErr THEN c
    ELSE IF ~IsComplete(c.disk[c.ret]) THEN Raise(c, "ParserError")
    ELSE IF Failing(c, "producer") THEN compute(c)
    ELSE Return(c, DataFrame([url |-> c.disk[c.ret].url, v |-> c.disk[c.ret].v]))
      : c \in {cc} })

\* pd.read_parquet(p) as a step of a call
load_pq(cc, p) ==
  Only({
    IF c.err # NoErr THEN c
    ELSE IF Failing(c, "load") THEN Raise(Spent(c), "IOError")
    ELSE IF p \notin DOMAIN c.disk THEN Raise(c, "IsADirectoryError")
    ELSE IF ~IsComplete(c.disk[p]) THEN Raise(c, "ArrowInvalid")
    ELSE Return(c, read_parquet(c.disk[p]))
      : c \in {cc} })

\* df.to_parquet(p, index=False) as a step of a call; a failed write leaves
\* no file or a truncated one
dump_pq(cc, o, p) ==
  Only({
    IF c.err # NoErr THEN c
    ELSE IF Failing(c, "dump") THEN Raise(Spent(c), "IOError")
    ELSE IF Failing(c, "dump_partial")
      THEN Raise(Spent([c EXCEPT !.disk = PutFile(@, p, Truncated)]), "IOError")
    ELSE [c EXCEPT !.disk = PutFile(@, p, to_parquet(o)), !.dumped = @ \cup {p}]
      : c \in {cc} })

\* the producer of the cache file p is entered
Invoke(c, p) == [c EXCEPT !.invoked = Append(@, p)]

(***************************************************************************)
(* cbp.py: the caching decorator.                                          *)
(***************************************************************************)

\* cacher(dump, load)(path)(func), called: cache_pq is cacher(to_parquet,
\* read_parquet).  p is the rendered path; run is the run of the wrapped
\* producer from Invoke(c, p), which is looked at on a miss only.
\* variants of the wrapper: one that never looks for the file, one that
\* does not create the directory and returns what it reads back, one that
\* opens the file before it runs the producer
cache_pq_rebuild(cc, pp, run) ==
  Only({ Only({
      IF c.err # NoErr THEN c
      ELSE Only({ Only({
             IF r.err # NoErr THEN r
             ELSE IF d.err # NoErr THEN d
             ELSE Return(d, r.ret)
               : d \in {dump_pq(mkdir(r, parent(p)), r.ret, p)} })
               : r \in {run} })
        : c \in {cc} })
      : p \in {pp} })

cache_pq_flat(cc, pp, run) ==
  Only({ Only({
      IF c.err # NoErr THEN c
      ELSE IF exists(c, p) THEN load_pq(c, p)
      ELSE Only({ Only({
             IF r.err # NoErr THEN r
             ELSE IF d.err # NoErr THEN d
             ELSE Return(d, r.ret)
               : d \in {dump_pq(r, r.ret, p)} })
               : r \in {run} })
        : c \in {cc} })
      : p \in {pp} })

cache_pq_open_first(cc, pp, run) ==
  Only({ Only({
      IF c.err # NoErr THEN c
      ELSE IF exists(c, p) THEN load_pq(c, p)
      ELSE Only({ Only({
             IF r.err # NoErr THEN [r EXCEPT !.disk = PutFile(@, p, Truncated)]
             ELSE IF d.err # NoErr THEN d
             ELSE Return(d, r.ret)
               : d \in {dump_pq(mkdir(r, parent(p)), r.ret, p)} })
               : r \in {run} })
        : c \in {cc} })
      : p \in {pp} })

\* a wrapper that takes a load that raises for a miss and builds the file
cache_pq_load_caught(cc, pp, run) ==
  Only({ Only({ Only({
      IF c.err # NoErr THEN c
      ELSE IF exists(c, p) /\ l.err = NoErr THEN l
      ELSE Only({ Only({
             IF r.err # NoErr THEN r
             ELSE IF d.err # NoErr THEN d
             ELSE Return(d, r.ret)
               : d \in {dump_pq(mkdir(r, parent(p)), r.ret, p)} })
               : r \in {run} })
        : l \in {IF p \in DOMAIN c.disk THEN load_pq(c, p) ELSE c} })
        : c \in {cc} })
      : p \in {pp} })

cache_pq(cc, pp, run) ==
  Only({ Only({
      IF c.err # NoErr THEN c
      ELSE IF exists(c, p) THEN load_pq(c, p)
      ELSE Only({ Only({
             IF r.err # NoErr THEN r
             ELSE IF d.err # NoErr THEN d
             ELSE Return(d, r.ret)
               : d \in {dump_pq(mkdir(r, parent(p)), r.ret, p)} })
               : r \in {run} })
        : c \in {cc} })
      : p \in {pp} })

(***************************************************************************)
(* cbp.py: paths, source getter, cached producers.                         *)
(***************************************************************************)
CBP_PATH ==
  [src       |-> <<"data", "cbp", "src">>,
   parquet   |-> <<"data", "cbp", "parquet">>,
   cbp_raw   |-> <<"data", "cbp", "raw">>,
   cbp_panel |-> <<"data", "cbp", "panel">>,
   src_efsy  |-> <<"data", "cbp", "src_efsy">>,
   efsy      |-> <<"data", "cbp", "efsy">>]

NAICS_PATH == [source |-> <<"data", "source", "naics">>]

cbp_src_path(geo, year) ==
  CBP_PATH.src \o <<geo, ToString(year) \o "." \o (IF geo = "us" /\ year < 2008 THEN "txt" ELSE "zip")>>

\* a getter whose last branch is an else: any other geo is taken for county
_get_cbp_src_else_county(cc, geo, year) ==
  Only({
    IF c.err # NoErr THEN c
    ELSE LET path == cbp_src_path(geo, year)
             base == <<"www2.census.gov", "programs-surveys", "cbp", "datasets", ToString(year)>>
             url == base \o <<"cbp" \o yr(year) \o "co.zip">>
         IN IF exists(c, path) THEN Return(c, path)
            ELSE Only({ IF d.err # NoErr THEN d ELSE Return(d, path)
                          : d \in {download_file(c, url, parent(path), path[Len(path)])} })
      : c \in {cc} })

_get_cbp_src(cc, geo, year) ==
  Only({
    IF c.err # NoErr THEN c
    ELSE LET ext == IF geo = "us" /\ year < 2008 THEN "txt" ELSE "zip"
             path == cbp_src_path(geo, year)
             base == <<"www2.census.gov", "programs-surveys", "cbp", "datasets", ToString(year)>>
             url == IF geo = "us" THEN base \o <<"cbp" \o yr(year) \o "us." \o ext>>
                    ELSE IF geo = "state" THEN base \o <<"cbp" \o yr(year) \o "st.zip">>
                    ELSE base \o <<"cbp" \o yr(year) \o "co.zip">>
         IN IF exists(c, path) THEN Return(c, path)
            ELSE IF geo \notin {"us", "state", "county"} THEN Raise(c, "UnboundLocalError")
            ELSE Only({ IF d.err # NoErr THEN d ELSE Return(d, path)
                          : d \in {download_file(c, url, parent(path), path[Len(path)])} })
      : c \in {cc} })

\* 0 stands for the bare raise
naics_year(cbp_year) ==
  IF 1998 <= cbp_year /\ cbp_year < 2003 THEN 1997
  ELSE IF 2003 <= cbp_year /\ cbp_year < 2008 THEN 2002
  ELSE IF 2008 <= cbp_year /\ cbp_year < 2012 THEN 2007
  ELSE IF 2012 <= cbp_year /\ cbp_year < 2017 THEN 2012
  ELSE IF 2017 <= cbp_year /\ cbp_year < 2022 THEN 2017
  ELSE 0

\* a template that leaves the geography out of the file's path
cbp_raw_path_by_year(geo, year) == Path(format(<<"data/cbp/raw/", ".pq">>, <<ToString(year)>>))

\* str(PATH['cbp_raw'] / '{}/{}.pq').format(geo, year), made a Path; the
\* paths of the keys of KeyGeos and KeyYears are rendered once and looked up
cbp_raw_paths ==
  [geo \in KeyGeos, year \in KeyYears |->
     Path(format(<<"data/cbp/raw/", "/", ".pq">>, <<geo, ToString(year)>>))]
cbp_raw_path(geo, year) == cbp_raw_paths[geo, year]

get_cbp_raw_func(c, geo, year) == read_src(_get_cbp_src(c, geo, year))

\* the producer without its decorator
get_cbp_raw_undecorated(c, geo, year) ==
  get_cbp_raw_func(Invoke(c, cbp_raw_path(geo, year)), geo, year)

get_cbp_raw(c, geo, year) ==
  cache_pq(c, cbp_raw_path(geo, year), get_cbp_raw_func(Invoke(c, cbp_raw_path(geo, year)), geo, year))

\* a file name that joins the geography and the year in one component
cbp_raw_pq_path_flat(geo, year) == CBP_PATH.cbp_raw \o Path(geo \o "_" \o ToString(year) \o ".pq")

\* PATH['cbp_raw'] / f'{geo}/{year}.pq', for the keys of KeyGeos and KeyYears
cbp_raw_pq_paths ==
  [geo \in KeyGeos, year \in KeyYears |-> CBP_PATH.cbp_raw \o Path(geo \o "/" \o ToString(year) \o ".pq")]
cbp_raw_pq_path(geo, year) == cbp_raw_pq_paths[geo, year]

get_cbp_raw_pq(cc, geo, year) ==
  Only({
    IF c.err # NoErr THEN c
    ELSE IF exists(c, cbp_raw_pq_path(geo, year))
      THEN Return(c, cbp_raw_pq_path(geo, year))
    ELSE Only({ IF r.err # NoErr THEN r
                ELSE IF ~exists(r, cbp_raw_pq_path(geo, year))
                  THEN Raise(r, "AssertionError")
                ELSE Return(r, cbp_raw_pq_path(geo, year))
                  : r \in {get_cbp_raw(c, geo, year)} })
      : c \in {cc} })

\* naics.get_src(year, 'code'): the file name is the last component of the url
naics_src_url(year) ==
  IF year = 1997 THEN <<"www2.census.gov", "programs-surveys", "cbp", "technical-documentation",
                        "reference", "naics-descriptions", "naics.txt">>
  ELSE IF year = 2002 THEN <<"www.census.gov", "naics", "reference_files_tools", "2002", "naics_2_6_02.txt">>
  ELSE IF year = 2007 THEN <<"www.census.gov", "naics", "reference_files_tools", "2007", "naics07.txt">>
  ELSE IF year = 2012 THEN <<"www.census.gov", "naics", "2012NAICS", "2-digit_2012_Codes.xls">>
  ELSE IF year = 2017 THEN <<"www.census.gov", "naics", "2017NAICS", "2-6 digit_2017_Codes.xlsx">>
  ELSE <<"www.census.gov", "naics", "2022NAICS", "2-6 digit_2022_Codes.xlsx">>

naics_get_src(cc, year) ==
  Only({
    IF c.err # NoErr THEN c
    ELSE IF year \notin {1997, 2002, 2007, 2012, 2017, 2022} THEN Raise(c, "AssertionError")
    ELSE LET url == naics_src_url(year)
             path == NAICS_PATH.source \o <<ToString(year), url_name(url)>>
         IN IF exists(c, path) THEN Return(c, path)
            ELSE Only({ IF d.err # NoErr THEN d ELSE Return(d, path)
                          : d \in {download_file(c, url, parent(path), path[Len(path)])} })
      : c \in {cc} })

naics_get_df(c, year) == read_src(naics_get_src(c, year))

\* pd.read_parquet(get_cbp_raw_pq(geo, year), columns=[...]) of the wage functions
read_raw_pq(cc, geo, year) ==
  Only({ IF r.err # NoErr THEN r ELSE load_pq(r, r.ret)
           : r \in {get_cbp_raw_pq(cc, geo, year)} })

_get_wage_us(cc, year) ==
  Only({ Only({ Only({
    IF r.err # NoErr THEN r
    ELSE IF n.err # NoErr THEN n
    ELSE IF e.err # NoErr THEN e
    ELSE Return(e, DataFrame([us |-> r.ret.data, naics |-> n.ret.data]))
      : e \in {compute(n)} })
      : n \in {IF naics_year(year) = 0 THEN Raise(r, "RuntimeError")
               ELSE naics_get_df(compute(r), naics_year(year))} })
      : r \in {read_raw_pq(cc, "us", year)} })

_get_wage_state(cc, year) ==
  Only({ Only({ Only({
    IF r.err # NoErr THEN r
    ELSE IF d.err # NoErr THEN d
    ELSE IF e.err # NoErr THEN e
    ELSE Return(e, DataFrame([state |-> r.ret.data, nation |-> d.ret.data]))
      : e \in {compute(d)} })
      : d \in {_get_wage_us(compute(r), year)} })
      : r \in {read_raw_pq(cc, "state", year)} })

_get_wage_county(cc, year) ==
  Only({ Only({ Only({
    IF r.err # NoErr THEN r
    ELSE IF d.err # NoErr THEN d
    ELSE IF e.err # NoErr THEN e
    ELSE Return(e, DataFrame([county |-> r.ret.data, state |-> d.ret.data]))
      : e \in {compute(d)} })
      : d \in {_get_wage_state(compute(r), year)} })
      : r \in {read_raw_pq(cc, "county", year)} })

get_wage(cc, geo, year) ==
  Only({
    IF c.err # NoErr THEN c
    ELSE IF geo = "us" THEN _get_wage_us(c, year)
    ELSE IF geo = "state" THEN _get_wage_state(c, year)
    ELSE IF geo = "county" THEN _get_wage_county(c, year)
    ELSE Return(c, Nothing)
      : c \in {cc} })

efsy_year_paths ==
  [year \in KeyYears |-> Path(format(<<"data/cbp/efsy/years/", ".pq">>, <<ToString(year)>>))]
efsy_year_path(year) == efsy_year_paths[year]

get_efsy_year_func(c, year) ==
  LET url == <<"fpeckert.me", "cbp", "Imputed Files", "efsy_" \o ToString(year) \o ".zip">>
  IN read_src(download_file(c, url, CBP_PATH.src_efsy, url_name(url)))

get_efsy_year(c, year) ==
  cache_pq(c, efsy_year_path(year), get_efsy_year_func(Invoke(c, efsy_year_path(year)), year))

efsy_panel_paths ==
  [industry \in {"native", "naics"} |-> Path(format(<<"data/cbp/efsy/efsy_panel_", ".pq">>, <<industry>>))]
efsy_panel_path(industry) == efsy_panel_paths[industry]

\* the rows of the panel: each has a year and a value in another column
EfsyRows == {[year |-> y, own |-> o] : y \in {2015, 2016}, o \in {"0", "5"}}

\* pd.read_csv on the panel's source file whose path is c.ret
read_panel(cc) ==
  Only({
    IF c.err # NoErr THEN c
    ELSE Return(c, DataFrame([url |-> c.ret.data.url, v |-> c.ret.data.v, rows |-> EfsyRows]))
      : c \in {read_src(cc)} })

_get_efsy_panel_func(cc, industry) ==
  Only({
    IF c.err # NoErr THEN c
    ELSE IF industry \notin {"native", "naics"} THEN Raise(c, "RuntimeError")
    ELSE LET url == <<"fpeckert.me", "cbp", "Imputed Files", "efsy_panel_" \o industry \o ".csv.zip">>
         IN read_panel(download_file(c, url, CBP_PATH.src_efsy, url_name(url)))
      : c \in {cc} })

_get_efsy_panel(c, industry) ==
  cache_pq(c, efsy_panel_path(industry), _get_efsy_panel_func(Invoke(c, efsy_panel_path(industry)), industry))

\* PATH['efsy'] / f'efsy_panel_{industry}.pq'
efsy_panel_pq_paths ==
  [industry \in {"native", "naics"} |-> CBP_PATH.efsy \o Path("efsy_panel_" \o industry \o ".pq")]
efsy_panel_pq_path(industry) == efsy_panel_pq_paths[industry]

\* a row passes a filters list (None: no filter) when every predicate holds
Passes(filters, row) ==
  filters = Nothing
  \/ \A i \in 1..Len(filters.list) :
       IF filters.list[i].col = "year" THEN row.year \in {filters.list[i].val[j] : j \in 1..Len(filters.list[i].val)}
       ELSE row.own \in {filters.list[i].val[j] : j \in 1..Len(filters.list[i].val)}

\* pd.read_parquet(p, engine='pyarrow', filters=filters) as a step of a call
load_pq_filtered(cc, p, filters) ==
  Only({
    IF c.err # NoErr THEN c
    ELSE IF Failing(c, "load") THEN Raise(Spent(c), "IOError")
    ELSE IF p \notin DOMAIN c.disk THEN Raise(c, "IsADirectoryError")
    ELSE IF ~IsComplete(c.disk[p]) THEN Raise(c, "ArrowInvalid")
    ELSE Return(c, [read_parquet(c.disk[p]) EXCEPT !.data.rows = {r \in @ : Passes(filters, r)}])
      : c \in {cc} })

\* an interface that returns the producer's table on a miss, whatever the
\* filters
get_efsy_panel_unfiltered_miss(cc, industry, filters) ==
  Only({
    IF c.err # NoErr THEN c
    ELSE IF ~exists(c, efsy_panel_pq_path(industry)) THEN _get_efsy_panel(c, industry)
    ELSE load_pq_filtered(c, efsy_panel_pq_path(industry), filters)
      : c \in {cc} })

get_efsy_panel(cc, industry, filters) ==
  Only({
    IF c.err # NoErr THEN c
    ELSE IF ~exists(c, efsy_panel_pq_path(industry))
      THEN Only({ IF d.err # NoErr THEN d
                  ELSE IF filters = Nothing THEN d
                  ELSE load_pq_filtered(d, efsy_panel_pq_path(industry), filters)
                    : d \in {_get_efsy_panel(c, industry)} })
    ELSE load_pq_filtered(c, efsy_panel_pq_path(industry), filters)
      : c \in {cc} })

cbp_year_paths ==
  [year \in KeyYears |-> Path(format(<<"data/cbp/panel/", ".pq">>, <<ToString(year)>>))]
cbp_year_path(year) == cbp_year_paths[year]

get_cbp_year_func(cc, year) ==
  Only({ Only({ Only({ Only({ Only({
    IF df.err # NoErr THEN df
    ELSE IF w.err # NoErr THEN w
    ELSE IF m.err # NoErr THEN m
    ELSE IF year > 2016 THEN Return(m, DataFrame([raw |-> df.ret.data, wage |-> w.ret.data]))
    ELSE IF d.err # NoErr THEN d
    ELSE IF e.err # NoErr THEN e
    ELSE Return(e, DataFrame([raw |-> df.ret.data, wage |-> w.ret.data, efsy |-> d.ret.data]))
      : e \in {compute(d)} })
      : d \in {IF year > 2016 THEN m ELSE get_efsy_year(m, year)} })
      : m \in {IF year > 1997 THEN compute(w) ELSE Raise(w, "KeyError")} })
      : w \in {get_wage(compute(df), "county", year)} })
      : df \in {get_cbp_raw(cc, "county", year)} })

get_cbp_year(c, year) ==
  cache_pq(c, cbp_year_path(year), get_cbp_year_func(Invoke(c, cbp_year_path(year)), year))

\* PATH['cbp_panel'] / f'{year}.pq'
cbp_year_pq_paths ==
  [year \in KeyYears |-> CBP_PATH.cbp_panel \o Path(ToString(year) \o ".pq")]
cbp_year_pq_path(year) == cbp_year_pq_paths[year]

get_cbp_year_pq(cc, year) ==
  Only({
    IF c.err # NoErr THEN c
    ELSE IF exists(c, cbp_year_pq_path(year))
      THEN Return(c, cbp_year_pq_path(year))
    ELSE Only({ IF r.err # NoErr THEN r
                ELSE IF ~exists(r, cbp_year_pq_path(year))
                  THEN Raise(r, "AssertionError")
                ELSE Return(r, cbp_year_pq_path(year))
                  : r \in {get_cbp_year(c, year)} })
      : c \in {cc} })

cbp_parquet_path(geo, year) == CBP_PATH.parquet \o <<geo, ToString(year), "part.pq">>

\* get_df without its exists check
cbp_get_df_rebuild(cc, geo, year) ==
  Only({
    IF c.err # NoErr THEN c
    ELSE Only({ Only({
           IF df.err # NoErr THEN df
           ELSE IF d.err # NoErr THEN d
           ELSE Return(d, df.ret)
             : d \in {dump_pq(mkdir(df, parent(cbp_parquet_path(geo, year))), df.ret, cbp_parquet_path(geo, year))} })
             : df \in {compute(read_src(_get_cbp_src(Invoke(c, cbp_parquet_path(geo, year)), geo, year)))} })
      : c \in {cc} })

\* cbp.get_df: the hand-written exists-check cache
cbp_get_df(cc, geo, year) ==
  Only({
    IF c.err # NoErr THEN c
    ELSE IF exists(c, cbp_parquet_path(geo, year)) THEN load_pq(c, cbp_parquet_path(geo, year))
    ELSE Only({ Only({
           IF df.err # NoErr THEN df
           ELSE IF d.err # NoErr THEN d
           ELSE Return(d, df.ret)
             : d \in {dump_pq(mkdir(df, parent(cbp_parquet_path(geo, year))), df.ret, cbp_parquet_path(geo, year))} })
             : df \in {compute(read_src(_get_cbp_src(Invoke(c, cbp_parquet_path(geo, year)), geo, year)))} })
      : c \in {cc} })

rmtree(c, root) ==
  [c EXCEPT !.disk = rmtree_files(@, root), !.dirs = rmtree_dirs(@, root)]

cbp_cleanup(c, remove_downloaded) ==
  LET c1 == IF remove_downloaded
              THEN rmtree(rmtree(c, CBP_PATH.src), CBP_PATH.src_efsy)
              ELSE c
  IN rmtree(rmtree(rmtree(c1, CBP_PATH.parquet), CBP_PATH.cbp_panel), CBP_PATH.efsy)

(***************************************************************************)
(* cbp.py: builder loops.  The loops run over range(1986, 2022) and        *)
(* range(1986, 2020); the model runs them over the years of Years that lie *)
(* in the range, in the order of the loop.                                 *)
(***************************************************************************)
RECURSIVE Ascending(_)
Ascending(S) ==
  IF S = {} THEN <<>>
  ELSE LET m == CHOOSE y \in S : \A z \in S : y <= z
       IN <<m>> \o Ascending(S \ {m})

\* for year in range(lo, hi): for geo in ['us', 'state', 'county']
LoopKeys(lo, hi) ==
  LET ys == Ascending({y \in Years : lo <= y /\ y < hi})
  IN [i \in 1..(Len(ys) * Len(Geos)) |->
        <<ys[((i - 1) \div Len(Geos)) + 1], Geos[((i - 1) % Len(Geos)) + 1]>>]

RECURSIVE preproc_loop(_, _)
preproc_loop(cc, keys) ==
  Only({ IF keys = <<>> \/ c.err # NoErr THEN c
         ELSE preproc_loop(get_cbp_raw(c, keys[1][2], keys[1][1]), Tail(keys))
           : c \in {cc} })

preproc_get_cbp_raw(cc) ==
  Only({ IF r.err # NoErr THEN r ELSE Return(r, Nothing)
           : r \in {preproc_loop(cc, LoopKeys(1986, 2022))} })

RECURSIVE build_loop(_, _)
build_loop(cc, keys) ==
  Only({ IF keys = <<>> \/ c.err # NoErr THEN c
         ELSE build_loop(cbp_get_df(c, keys[1][2], keys[1][1]), Tail(keys))
           : c \in {cc} })

build_all_parquet(cc) ==
  Only({ IF r.err # NoErr THEN r ELSE Return(r, Nothing)
           : r \in {build_loop(cc, LoopKeys(1986, 2020))} })

(***************************************************************************)
(* geography.py: state and county boundary files, tract partitions.        *)
(***************************************************************************)
GEO_PATH ==
  [source |-> <<"data", "source", "geo">>,
   geo    |-> <<"data", "geo">>,
   state  |-> <<"data", "geo", "state">>,
   county |-> <<"data", "geo", "county.pq">>,
   tract  |-> <<"data", "geo", "tract.pq">>]

_STATE_REVISION_YEAR == 2021

\* geopandas: a GeoDataFrame is a frame with a geometry column
GeoDataFrame(data) == [data |-> data, index |-> "range", geometry |-> TRUE]
\* GeoDataFrame.to_parquet(path): the index is written with the columns
geo_to_parquet(o) == [complete |-> TRUE, data |-> o.data, index |-> o.index, geometry |-> o.geometry]
\* geopandas.read_parquet(path)
geo_read_parquet(f) == [data |-> f.data, index |-> f.index, geometry |-> f.geometry]
\* a read that does not restrict the columns
read_parquet_all_columns(f) == [data |-> f.data, index |-> f.index, geometry |-> f.geometry]
\* pd.read_parquet(path, 'pyarrow', columns) with columns that leave geometry out
read_parquet_columns(f) == [data |-> f.data, index |-> f.index, geometry |-> FALSE]
\* pd.DataFrame(df).drop(columns='geometry')
drop_geometry(o) == [o EXCEPT !.geometry = FALSE]

\* geopandas.read_file on the zipped shapefile whose path is c.ret
read_file(cc) ==
  Only({
    IF c.err # NoErr THEN c
    ELSE IF ~IsComplete(c.disk[c.ret]) THEN Raise(c, "DriverError")
    ELSE IF Failing(c, "producer") THEN compute(c)
    ELSE Return(c, GeoDataFrame([url |-> c.disk[c.ret].url, v |-> c.disk[c.ret].v]))
      : c \in {cc} })

geo_dump(cc, o, p) ==
  Only({
    IF c.err # NoErr THEN c
    ELSE IF Failing(c, "dump") THEN Raise(Spent(c), "IOError")
    ELSE IF Failing(c, "dump_partial")
      THEN Raise(Spent([c EXCEPT !.disk = PutFile(@, p, Truncated)]), "IOError")
    ELSE [c EXCEPT !.disk = PutFile(@, p, geo_to_parquet(o)), !.dumped = @ \cup {p}]
      : c \in {cc} })

get_state_src(cc, scale) ==
  Only({
    IF c.err # NoErr THEN c
    ELSE LET year == ToString(_STATE_REVISION_YEAR)
             file_name == IF scale = "tiger" THEN "tl_" \o year \o "_us_state.zip"
                          ELSE "cb_" \o year \o "_us_state_" \o scale \o ".zip"
             url == IF scale = "tiger"
                      THEN <<"www2.census.gov", "geo", "tiger", "TIGER" \o year, "STATE", file_name>>
                      ELSE <<"www2.census.gov", "geo", "tiger", "GENZ" \o year, "shp", file_name>>
             local_path == GEO_PATH.source \o <<"state", file_name>>
         IN IF exists(c, local_path) THEN Return(c, local_path)
            ELSE Only({ IF d.err # NoErr THEN d ELSE Return(d, local_path)
                          : d \in {download_file(c, url, parent(local_path), local_path[Len(local_path)])} })
      : c \in {cc} })

state_pq_path(scale) == GEO_PATH.state \o <<scale \o ".pq">>

get_state_df(cc, geometry, scale) ==
  Only({
    IF c.err # NoErr THEN c
    ELSE IF exists(c, state_pq_path(scale))
      THEN IF Failing(c, "load") THEN Raise(Spent(c), "IOError")
           ELSE IF state_pq_path(scale) \notin DOMAIN c.disk THEN Raise(c, "IsADirectoryError")
           ELSE IF ~IsComplete(c.disk[state_pq_path(scale)]) THEN Raise(c, "ArrowInvalid")
           ELSE IF geometry THEN Return(c, geo_read_parquet(c.disk[state_pq_path(scale)]))
           ELSE Return(c, read_parquet_columns(c.disk[state_pq_path(scale)]))
    ELSE Only({ Only({
           IF df.err # NoErr THEN df
           ELSE IF d.err # NoErr THEN d
           ELSE IF ~geometry THEN Return(d, drop_geometry(df.ret))
           ELSE Return(d, df.ret)
             : d \in {geo_dump(mkdir(df, parent(state_pq_path(scale))), df.ret, state_pq_path(scale))} })
             : df \in {compute(read_file(get_state_src(Invoke(c, state_pq_path(scale)), scale)))} })
      : c \in {cc} })

_data_cleanup_state(c, which) ==
  LET c1 == IF which \in {"downloaded", "all"} THEN rmtree(c, GEO_PATH.source \o <<"state">>) ELSE c
  IN IF which \in {"processed", "all"} THEN rmtree(c1, GEO_PATH.state) ELSE c1

\* the keys of the urls table of get_county_src
county_urls ==
  {<<1990, "20m">>, <<2000, "20m">>}
    \cup ({2010, 2013} \X {"20m", "5m", "500k"})
    \cup ((2014..2020) \X {"20m", "5m", "500k"})

county_url(year, scale) ==
  IF year = 1990 THEN <<"www2.census.gov", "geo", "tiger", "PREVGENZ", "co", "co90shp", "co99_d90_shp.zip">>
  ELSE IF year = 2000 THEN <<"www2.census.gov", "geo", "tiger", "PREVGENZ", "co", "co00shp", "co99_d00_shp.zip">>
  ELSE IF year = 2010
    THEN <<"www2.census.gov", "geo", "tiger", "GENZ2010", "gz_2010_us_050_00_" \o scale \o ".zip">>
  ELSE IF year = 2013
    THEN <<"www2.census.gov", "geo", "tiger", "GENZ2013", "cb_2013_us_county_" \o scale \o ".zip">>
  ELSE <<"www2.census.gov", "geo", "tiger", "GENZ" \o ToString(year), "shp",
         "cb_" \o ToString(year) \o "_us_county_" \o scale \o ".zip">>

county_src_path(year, scale) ==
  GEO_PATH.source \o <<"county", ToString(year) \o "_" \o scale \o ".zip">>

\* a getter that names the local file after the year alone
get_county_src_by_year(cc, year, scale) ==
  Only({
    IF c.err # NoErr THEN c
    ELSE IF <<year, scale>> \notin county_urls THEN Raise(c, "AssertionError")
    ELSE LET local == GEO_PATH.source \o <<"county", ToString(year) \o ".zip">>
         IN IF exists(c, local) THEN Return(c, local)
            ELSE Only({ IF d.err # NoErr THEN d ELSE Return(d, local)
                          : d \in {download_file(c, county_url(year, scale), parent(local), local[Len(local)])} })
      : c \in {cc} })

get_county_src(cc, year, scale) ==
  Only({
    IF c.err # NoErr THEN c
    ELSE IF <<year, scale>> \notin county_urls THEN Raise(c, "AssertionError")
    ELSE LET local == county_src_path(year, scale)
         IN IF exists(c, local) THEN Return(c, local)
            ELSE Only({ IF d.err # NoErr THEN d ELSE Return(d, local)
                          : d \in {download_file(c, county_url(year, scale), parent(local), local[Len(local)])} })
      : c \in {cc} })

tract_src_path(year, state_code) ==
  GEO_PATH.source \o <<"tract", ToString(year), state_code \o ".zip">>

get_tract_src(cc, year, state_code) ==
  Only({
    IF c.err # NoErr THEN c
    ELSE IF year \notin {1990, 2000, 2010, 2020} THEN Raise(c, "Exception")
    ELSE LET base == <<"www2.census.gov", "geo", "tiger">>
             url == IF year = 1990 THEN base \o <<"PREVGENZ", "tr", "tr90shp", "tr" \o state_code \o "_d90_shp.zip">>
                    ELSE IF year = 2000 THEN base \o <<"PREVGENZ", "tr", "tr00shp", "tr" \o state_code \o "_d00_shp.zip">>
                    ELSE IF year = 2010 THEN base \o <<"GENZ2010", "gz_2010_" \o state_code \o "_140_00_500k.zip">>
                    ELSE base \o <<"GENZ2020", "shp", "cb_2020_" \o state_code \o "_tract_500k.zip">>
             local == tract_src_path(year, state_code)
         IN IF exists(c, local) THEN Return(c, local)
            ELSE Only({ IF d.err # NoErr THEN d ELSE Return(d, local)
                          : d \in {download_file(c, url, parent(local), local[Len(local)])} })
      : c \in {cc} })

tract_part_path(year, state_code) ==
  GEO_PATH.tract \o <<"YEAR=" \o ToString(year), "STATE_CODE=" \o state_code, "part.pq">>

_prep_tract_df(cc, year, state_code) ==
  Only({
    IF c.err # NoErr THEN c
    ELSE IF exists(c, tract_part_path(year, state_code)) THEN Return(c, Nothing)
    ELSE Only({ Only({
           IF df.err # NoErr THEN df
           ELSE IF d.err # NoErr THEN d
           ELSE Return(d, Nothing)
             : d \in {geo_dump(mkdir(df, parent(tract_part_path(year, state_code))), df.ret,
                               tract_part_path(year, state_code))} })
             : df \in {compute(read_file(get_tract_src(Invoke(c, tract_part_path(year, state_code)),
                                                      year, state_code)))} })
      : c \in {cc} })

(***************************************************************************)
(* bea_io.py: the source getter.                                           *)
(***************************************************************************)
BEA_IO_PATH == [src |-> <<"data", "bea_io", "src">>, proc |-> <<"data", "bea_io">>]

bea_io_fnm(year) == IF year = 2022 THEN "AllTablesSUP_2022q2.zip" ELSE "AllTablesSUP_2023.zip"
bea_io_url(year) ==
  IF year = 2022
    THEN <<"apps.bea.gov", "histdata", "Releases", "Industry", "2022", "GDP_by_Industry", "Q2",
           "Annual_September-29-2022", "AllTablesSUP.zip">>
  ELSE <<"apps.bea.gov", "industry", "iTables Static Files", "AllTablesSUP.zip">>

\* bea_io._get_src
bea_io_get_src(cc, year) ==
  Only({
    IF c.err # NoErr THEN c
    ELSE IF year \notin {2022, 2023} THEN Raise(c, "UnboundLocalError")
    ELSE LET path == BEA_IO_PATH.src \o <<bea_io_fnm(year)>>
         IN IF exists(c, path) THEN Return(c, path)
            ELSE Only({ IF d.err # NoErr THEN d ELSE Return(d, path)
                          : d \in {download_file(mkdir(c, parent(path)), bea_io_url(year), BEA_IO_PATH.src,
                                                  bea_io_fnm(year))} })
      : c \in {cc} })

(***************************************************************************)
(* bea_io.py: lists of NAICS codes in the concordance table.               *)
(***************************************************************************)
Digits == "0123456789"
IsDigit(ch) == \E d \in 0..9 : SubSeq(Digits, d + 1, d + 1) = ch
digit(ch) == CHOOSE d \in 0..9 : SubSeq(Digits, d + 1, d + 1) = ch

\* int(s) of a string of decimal digits; anything else is a ValueError
IsInt(s) == s # "" /\ \A i \in 1..Len(s) : IsDigit(SubSeq(s, i, i))
RECURSIVE int(_)
int(s) ==
  IF Len(s) = 1 THEN digit(s)
  ELSE int(SubSeq(s, 1, Len(s) - 1)) * 10 + digit(SubSeq(s, Len(s), Len(s)))

\* s.split(sep): cur is the piece being read
RECURSIVE split(_, _, _)
split(s, sep, cur) ==
  IF s = "" THEN <<cur>>
  ELSE IF Len(s) >= Len(sep) /\ SubSeq(s, 1, Len(sep)) = sep
    THEN <<cur>> \o split(SubSeq(s, Len(sep) + 1, Len(s)), sep, "")
  ELSE split(SubSeq(s, 2, Len(s)), sep, cur \o SubSeq(s, 1, 1))

\* [str(c) for c in range(first, last+1)]
str_range(first, lastc) == [i \in 1..(lastc - first + 1) |-> ToString(first + i - 1)]

\* a range that leaves its upper end out
expand_dash_exclusive(codes) ==
  IF \E i \in 1..Len(codes) : SubSeq(codes, i, i) = "-"
    THEN Only({
           IF Len(parts) # 2 THEN [err |-> "ValueError", ret |-> <<>>]
           ELSE IF Len(parts[2]) # 1 THEN [err |-> "AssertionError", ret |-> <<>>]
           ELSE IF ~IsInt(SubSeq(parts[1], 1, Len(parts[1]) - 1) \o parts[2]) \/ ~IsInt(parts[1])
             THEN [err |-> "ValueError", ret |-> <<>>]
           ELSE [err |-> NoErr,
                 ret |-> str_range(int(parts[1]), int(SubSeq(parts[1], 1, Len(parts[1]) - 1) \o parts[2]) - 1)]
             : parts \in {split(codes, "-", "")} })
  ELSE [err |-> NoErr, ret |-> <<codes>>]

\* expand_dash of _split_codes: first, last = codes.split('-') takes exactly
\* two pieces
expand_dash(codes) ==
  IF \E i \in 1..Len(codes) : SubSeq(codes, i, i) = "-"
    THEN Only({
           IF Len(parts) # 2 THEN [err |-> "ValueError", ret |-> <<>>]
           ELSE IF Len(parts[2]) # 1 THEN [err |-> "AssertionError", ret |-> <<>>]
           ELSE IF ~IsInt(SubSeq(parts[1], 1, Len(parts[1]) - 1) \o parts[2]) \/ ~IsInt(parts[1])
             THEN [err |-> "ValueError", ret |-> <<>>]
           ELSE [err |-> NoErr,
                 ret |-> str_range(int(parts[1]), int(SubSeq(parts[1], 1, Len(parts[1]) - 1) \o parts[2]))]
             : parts \in {split(codes, "-", "")} })
  ELSE [err |-> NoErr, ret |-> <<codes>>]

\* sum((expand_dash(c) for c in codes), []): the first item that raises ends it
RECURSIVE sum_expand(_)
sum_expand(items) ==
  IF items = <<>> THEN [err |-> NoErr, ret |-> <<>>]
  ELSE Only({
         IF e.err # NoErr THEN e
         ELSE Only({ IF r.err # NoErr THEN r ELSE [err |-> NoErr, ret |-> e.ret \o r.ret]
                       : r \in {sum_expand(Tail(items))} })
           : e \in {expand_dash(Head(items))} })

\* _split_codes on a string (a missing value is returned as it is, line 332)
_split_codes(cc, codes) ==
  Only({
    IF c.err # NoErr THEN c
    ELSE Only({ IF r.err # NoErr THEN Raise(c, r.err) ELSE Return(c, r.ret)
                  : r \in {sum_expand(split(codes, ", ", ""))} })
      : c \in {cc} })

(***************************************************************************)
(* index.py: the symlinks of the project.  Paths are relative to the       *)
(* project root, which is the empty path; a symlink is a file on disk that *)
(* holds its target, a path relative to the directory of the link.         *)
(***************************************************************************)
NoPath == <<"">>
is_symlink(c, p) == p \in DOMAIN c.disk /\ "symlink" \in DOMAIN c.disk[p]

\* Path.resolve: done is the part that is resolved, rest what is left of
\* the path; ".." leaves a directory that is there
RECURSIVE resolve(_, _, _)
resolve(c, done, rest) ==
  IF done = NoPath \/ rest = <<>> THEN done
  ELSE IF Head(rest) = ".."
    THEN (IF done \in c.dirs \cup {<<>>} THEN resolve(c, parent(done), Tail(rest)) ELSE NoPath)
  ELSE IF is_symlink(c, done \o <<Head(rest)>>)
    THEN resolve(c, done, c.disk[done \o <<Head(rest)>>].symlink \o Tail(rest))
  ELSE resolve(c, done \o <<Head(rest)>>, Tail(rest))

is_dir(c, path) == resolve(c, <<>>, path) \in c.dirs \cup {<<>>}

\* link.unlink(missing_ok=True)
unlink(cc, link) ==
  Only({
    IF c.err # NoErr THEN c
    ELSE IF link \in DOMAIN c.disk
      THEN [c EXCEPT !.disk = [q \in DOMAIN c.disk \ {link} |-> c.disk[q]]]
    ELSE IF link \in c.dirs THEN Raise(c, "IsADirectoryError")
    ELSE c
      : c \in {cc} })

\* link.symlink_to(Path(targ), target_is_directory=True)
symlink_to(cc, link, targ) ==
  Only({
    IF c.err # NoErr THEN c
    ELSE IF Failing(c, "symlink") THEN Raise(Spent(c), "OSError")
    ELSE IF link \in DOMAIN c.disk \/ link \in c.dirs THEN Raise(c, "FileExistsError")
    ELSE IF ~is_dir(c, parent(link)) THEN Raise(c, "FileNotFoundError")
    ELSE [c EXCEPT !.disk = PutFile(@, link, [symlink |-> targ])]
      : c \in {cc} })

\* a function that makes the link without removing what is there
_create_dir_symlink(cc, link, targ) ==
  Only({
    IF c.err # NoErr THEN c
    ELSE IF ~is_dir(c, parent(link) \o targ) THEN Raise(c, "AssertionError")
    ELSE Only({
           IF s.err # NoErr THEN s
           ELSE IF ~is_dir(s, link) THEN Raise(s, "AssertionError")
           ELSE s
             : s \in {symlink_to(c, link, targ)} })
      : c \in {cc} })

_recreate_dir_symlink(cc, link, targ) ==
  Only({
    IF c.err # NoErr THEN c
    ELSE IF ~is_dir(c, parent(link) \o targ) THEN Raise(c, "AssertionError")
    ELSE Only({
           IF s.err # NoErr THEN s
           ELSE IF ~is_dir(s, link) THEN Raise(s, "AssertionError")
           ELSE s
             : s \in {symlink_to(unlink(c, link), link, targ)} })
      : c \in {cc} })

\* reseng.index.init of the submodule: it works in the submodule's own
\* tree; what it does there is not looked at
reseng_init(cc) ==
  Only({
    IF c.err # NoErr THEN c
    ELSE IF Failing(c, "reseng") THEN Raise(Spent(c), "ResengError")
    ELSE c
      : c \in {cc} })

INDEX_LINKS ==
  <<[link |-> <<"nbs", "pubdata">>, targ |-> <<"..", "pubdata">>],
    [link |-> <<"pubdata", "reseng">>, targ |-> <<"..", "submodules", "reseng", "reseng">>]>>

\* index.init
index_init(cc) ==
  Only({ IF r.err # NoErr THEN r ELSE Return(r, Nothing)
           : r \in {reseng_init(_recreate_dir_symlink(
                      _recreate_dir_symlink(cc, INDEX_LINKS[1].link, INDEX_LINKS[1].targ),
                      INDEX_LINKS[2].link, INDEX_LINKS[2].targ))} })

(***************************************************************************)
(* Partitioned stores (agcensus.py, qcew.py): one part.pq per year, the    *)
(* year being the name of the directory.                                   *)
(***************************************************************************)
YearUniverse == 1990..2030
Range(q) == {q[i] : i \in 1..Len(q)}

\* the rows the publisher puts into the file about `year`: each row carries
\* its year and an ownership code
Published(f, year) ==
  {[year |-> year, own |-> o] : o \in {"0", "5"}}
    \cup (IF f.skewed THEN {[year |-> year + 1, own |-> "0"]} ELSE {})

\* pd.read_csv on the source file whose path is c.ret, about `year`
read_rows(cc, year) ==
  Only({
    IF c.err # NoErr THEN c
    ELSE IF ~IsComplete(c.disk[c.ret]) THEN Raise(c, "ParserError")
    ELSE IF Failing(c, "producer") THEN compute(c)
    ELSE Return(c, DataFrame([url |-> c.disk[c.ret].url, v |-> c.disk[c.ret].v,
                              rows |-> Published(c.disk[c.ret], year)]))
      : c \in {cc} })

\* a builder without the assertion
assert_year_skipped(c, year) == c

\* assert (df['year'] == year).all()
assert_year(cc, year) ==
  Only({
    IF c.err # NoErr THEN c
    ELSE IF \E r \in c.ret.data.rows : r.year # year THEN Raise(c, "AssertionError")
    ELSE c
      : c \in {cc} })

\* del df['year']: the column goes; `from` remembers the row's source year
del_year(cc) ==
  Only({
    IF c.err # NoErr THEN c
    ELSE Return(c, [c.ret EXCEPT !.data.rows = {[own |-> r.own, from |-> r.year] : r \in @}])
      : c \in {cc} })

\* a filter list is None (Nothing) or [list |-> sequence of predicates];
\* a predicate is [col, val]: the column's value is one of val
year_filter(years) == [col |-> "year", val |-> years]
with_year_filter(filters, years) ==
  [list |-> Append(IF filters = Nothing THEN <<>> ELSE filters.list, year_filter(years))]

Holds(pred, row) ==
  IF pred.col = "year" THEN row.year \in Range(pred.val) ELSE row.own \in Range(pred.val)

\* the year a partition directory name stands for
part_year(name) == CHOOSE y \in YearUniverse : ToString(y) = name

\* pyarrow.dataset.dataset(root, partitioning=[year]).to_table(columns, filter)
read_dataset(cc, root, cols, filters) ==
  Only({
    IF c.err # NoErr THEN c
    ELSE LET files == {p \in DOMAIN c.disk : IsPrefix(root, p) /\ Len(p) = Len(root) + 2}
             preds == Range(filters.list)
             wanted == {p \in files : \A f \in preds : f.col = "year" => part_year(p[Len(root) + 1]) \in Range(f.val)}
             rows(p) == {[year |-> part_year(p[Len(root) + 1]), own |-> r.own, from |-> r.from] :
                            r \in c.disk[p].data.rows}
             all == UNION {rows(p) : p \in wanted}
         IN IF root \notin c.dirs THEN Raise(c, "FileNotFoundError")
            ELSE IF Failing(c, "load") THEN Raise(Spent(c), "IOError")
            ELSE IF \E p \in wanted : ~IsComplete(c.disk[p]) THEN Raise(c, "ArrowInvalid")
            ELSE Return(c, DataFrame([rows |-> {r \in all : \A f \in preds : Holds(f, r)}, cols |-> cols]))
      : c \in {cc} })

\* a reader that builds the partitions of the expected years it does not find
get_parquet_building(cc, geo, cols, filters) ==
  Only({
    IF c.err # NoErr THEN c
    ELSE Only({
           IF b.err # NoErr THEN b
           ELSE Return(b, DataFrame([parts |-> {[year |-> y, data |-> b.disk[cbp_parquet_path(geo, y)].data] :
                                                   y \in {2015, 2016}},
                                     cols |-> cols]))
             : b \in {cbp_get_df(cbp_get_df(c, geo, 2015), geo, 2016)} })
      : c \in {cc} })

\* cbp.get_parquet: pd.read_parquet over the directory of one geography,
\* the year of a row being the name of its partition directory.  The rows
\* of a partition are kept whole as one block.
get_parquet(cc, geo, cols, filters) ==
  Only({
    IF c.err # NoErr THEN c
    ELSE LET path == CBP_PATH.parquet \o <<geo>>
             files == {p \in DOMAIN c.disk : IsPrefix(path, p) /\ Len(p) = Len(path) + 2}
             preds == IF filters = Nothing THEN {} ELSE Range(filters.list)
             wanted == {p \in files : \A f \in preds : f.col = "year" => part_year(p[Len(path) + 1]) \in Range(f.val)}
         IN IF path \notin c.dirs THEN Raise(c, "FileNotFoundError")
            ELSE IF Failing(c, "load") THEN Raise(Spent(c), "IOError")
            ELSE IF \E p \in wanted : ~IsComplete(c.disk[p]) THEN Raise(c, "ArrowInvalid")
            ELSE Return(c, DataFrame([parts |-> {[year |-> part_year(p[Len(path) + 1]), data |-> c.disk[p].data] :
                                                    p \in wanted},
                                      cols |-> cols]))
      : c \in {cc} })

(***************************************************************************)
(* cbp.py: the wage tables of get_wage, row by row.  A table is the set of *)
(* its rows.  Wages are whole numbers once they are rounded; NaN stands    *)
(* for a wage that is NaN or infinite (no employment, no row to merge).    *)
(* Quotients are exact where pandas uses floats.                           *)
(***************************************************************************)
NaN == 0 - 1

\* Series.between(0.1, 1e9) on a rounded wage
between(w) == w # NaN /\ 1 <= w /\ w <= 1000000000

\* (a / b).round(): to the nearest whole number, a half to the even one
round_div(a, b) ==
  IF 2 * (a % b) < b THEN a \div b
  ELSE IF 2 * (a % b) > b THEN (a \div b) + 1
  ELSE IF (a \div b) % 2 = 0 THEN a \div b
  ELSE (a \div b) + 1

\* df['wage'] = (df['qp1'] / df['emp'] * 4000).round()
own_wage(r) == IF r.emp = 0 THEN NaN ELSE round_div(r.qp1 * 4000, r.emp)

\* s.str.replace(ch, '')
RECURSIVE str_replace(_, _)
str_replace(s, ch) ==
  IF s = "" THEN ""
  ELSE (IF SubSeq(s, 1, 1) = ch THEN "" ELSE SubSeq(s, 1, 1)) \o str_replace(SubSeq(s, 2, Len(s)), ch)

\* naics.get_df(naics_year(year), 'code')[['CODE', 'CODE_2', 'DIGITS']]: a
\* sector and an industry of it
NAICS_DF ==
  {[CODE |-> "11", CODE_2 |-> "11", DIGITS |-> 2], [CODE |-> "111", CODE_2 |-> "11", DIGITS |-> 3]}

\* _get_wage_us from the rows of the national file: the wage of a row, else
\* of its sector, else of the nation
_get_wage_us_df(us) ==
  LET n == {[CODE |-> IF x.DIGITS = 2 THEN SubSeq(x.CODE, 1, 2) ELSE x.CODE,
             CODE_2 |-> SubSeq(x.CODE_2, 1, 2), DIGITS |-> x.DIGITS] : x \in NAICS_DF}
      merged(r) == {x \in n : x.CODE = str_replace(str_replace(r.naics, "-"), "/")}
      code_2(r) == IF merged(r) = {} THEN "" ELSE Only(merged(r)).CODE_2
      sectors(r) == {x \in us : merged(x) # {} /\ Only(merged(x)).DIGITS = 2 /\ code_2(x) = code_2(r)}
      sector_wage(r) == IF code_2(r) = "" \/ sectors(r) = {} THEN NaN ELSE own_wage(Only(sectors(r)))
      wage1(r) == IF between(own_wage(r)) THEN own_wage(r) ELSE sector_wage(r)
      flag1(r) == IF between(own_wage(r)) THEN "nation-industry" ELSE "nation-sector"
      totals == {r \in us : r.naics = "------"}
      wage2(r) == IF between(wage1(r)) THEN wage1(r) ELSE wage1(Only(totals))
      flag2(r) == IF between(wage1(r)) THEN flag1(r) ELSE "nation"
  IN IF \E r1, r2 \in us : r1 # r2 /\ r1.naics = r2.naics THEN [err |-> "AssertionError", rows |-> {}]
     ELSE IF totals = {} THEN [err |-> "IndexError", rows |-> {}]
     ELSE IF \E r \in us : ~between(wage2(r)) THEN [err |-> "AssertionError", rows |-> {}]
     ELSE [err |-> NoErr,
           rows |-> {[naics |-> r.naics, wage |-> wage2(r), wage_f |-> flag2(r)] : r \in us}]

\* _get_wage_state from the rows of the state file and the national wages d
_get_wage_state_df(st, d) ==
  LET nation(r) == {x \in d : x.naics = r.naics}
      wage_nation(r) == IF nation(r) = {} THEN NaN ELSE Only(nation(r)).wage
      total(r) == {t \in st : t.naics = "------" /\ t.fipstate = r.fipstate}
      \* (df['wage_nation'] * df['state/nation']).round()
      product(r) ==
        IF total(r) = {} \/ wage_nation(r) = NaN THEN NaN
        ELSE IF ~between(own_wage(Only(total(r)))) THEN wage_nation(r)
        ELSE IF wage_nation(Only(total(r))) = NaN THEN NaN
        ELSE round_div(wage_nation(r) * own_wage(Only(total(r))), wage_nation(Only(total(r))))
      wage(r) == IF between(own_wage(r)) THEN own_wage(r) ELSE product(r)
      wage_f(r) == IF between(own_wage(r)) THEN "state-industry"
                   ELSE IF nation(r) = {} THEN "NaN" ELSE Only(nation(r)).wage_f
  IN IF \E r1, r2 \in st : r1 # r2 /\ r1.naics = r2.naics /\ r1.fipstate = r2.fipstate
       THEN [err |-> "AssertionError", rows |-> {}]
     ELSE IF \E r \in st : ~between(wage(r)) THEN [err |-> "AssertionError", rows |-> {}]
     ELSE [err |-> NoErr,
           rows |-> {[fipstate |-> r.fipstate, naics |-> r.naics, wage |-> wage(r), wage_f |-> wage_f(r)] :
                       r \in st}]

\* _get_wage_county from the rows of the county file and the state wages d
_get_wage_county_df(co, d) ==
  LET state(r) == {x \in d : x.naics = r.naics /\ x.fipstate = r.fipstate}
      wage_state(r) == IF state(r) = {} THEN NaN ELSE Only(state(r)).wage
      total(r) == {t \in co : t.naics = "------" /\ t.fipstate = r.fipstate /\ t.fipscty = r.fipscty}
      \* (df['wage_state'] * df['county/state']).round()
      product(r) ==
        IF total(r) = {} \/ wage_state(r) = NaN THEN NaN
        ELSE IF ~between(own_wage(Only(total(r)))) THEN wage_state(r)
        ELSE IF wage_state(Only(total(r))) = NaN THEN NaN
        ELSE round_div(wage_state(r) * own_wage(Only(total(r))), wage_state(Only(total(r))))
      wage(r) == IF between(own_wage(r)) THEN own_wage(r) ELSE product(r)
      wage_f(r) == IF between(own_wage(r)) THEN "county-industry"
                   ELSE IF state(r) = {} THEN "NaN" ELSE Only(state(r)).wage_f
  IN IF \E r1, r2 \in co : r1 # r2 /\ r1.naics = r2.naics /\ r1.fipstate = r2.fipstate /\ r1.fipscty = r2.fipscty
       THEN [err |-> "AssertionError", rows |-> {}]
     ELSE IF \E r \in co : ~between(wage(r)) THEN [err |-> "AssertionError", rows |-> {}]
     ELSE [err |-> NoErr,
           rows |-> {[fipstate |-> r.fipstate, fipscty |-> r.fipscty, naics |-> r.naics,
                      wage |-> wage(r), wage_f |-> wage_f(r)] : r \in co}]

\* get_wage on a disk that holds the three raw files of the year, their
\* rows being what the wage functions read from them
get_wage_df(cc, geo, year) ==
  Only({ Only({ Only({
    IF c.err # NoErr THEN c
    ELSE IF us.err # NoErr THEN Raise(c, us.err)
    ELSE IF geo = "us" THEN Return(c, DataFrame([rows |-> us.rows]))
    ELSE IF st.err # NoErr THEN Raise(c, st.err)
    ELSE IF geo = "state" THEN Return(c, DataFrame([rows |-> st.rows]))
    ELSE IF geo = "county"
      THEN Only({ IF co.err # NoErr THEN Raise(c, co.err) ELSE Return(c, DataFrame([rows |-> co.rows]))
                    : co \in {_get_wage_county_df(c.disk[cbp_raw_pq_path("county", year)].data.rows, st.rows)} })
    ELSE Return(c, Nothing)
      : st \in {IF us.err # NoErr THEN us
                ELSE _get_wage_state_df(c.disk[cbp_raw_pq_path("state", year)].data.rows, us.rows)} })
      : us \in {_get_wage_us_df(c.disk[cbp_raw_pq_path("us", year)].data.rows)} })
      : c \in {cc} })

(***************************************************************************)
(* geography.py: the tract store, hive-partitioned by year and state.      *)
(***************************************************************************)
\* the codes in the CODE column of the state table
STATE_CODES == <<"55", "56">>
TRACT_YEARS == <<1990, 2000, 2010, 2020>>

\* `x or default` and `if x:` on an argument that is None or a list
truthy(arg) == arg # Nothing /\ arg.list # <<>>

\* the values that the names of the partition directories stand for
hive_year(name) == CHOOSE y \in YearUniverse : "YEAR=" \o ToString(y) = name
hive_state(name) == SubSeq(name, Len("STATE_CODE=") + 1, Len(name))

\* for y in _years: for sc in _state_codes
Cross(ys, scs) ==
  [i \in 1..(Len(ys) * Len(scs)) |-> <<ys[((i - 1) \div Len(scs)) + 1], scs[((i - 1) % Len(scs)) + 1]>>]

RECURSIVE prep_loop(_, _)
prep_loop(cc, keys) ==
  Only({ IF keys = <<>> \/ c.err # NoErr THEN c
         ELSE prep_loop(_prep_tract_df(c, keys[1][1], keys[1][2]), Tail(keys))
           : c \in {cc} })

\* geopandas.read_parquet / pyarrow.parquet.read_table over PATH['tract']
\* with the filters f; the rows of a partition are kept whole as one block
read_tract(cc, f_years, f_states, geometry) ==
  Only({
    IF c.err # NoErr THEN c
    ELSE LET root == GEO_PATH.tract
             files == {p \in DOMAIN c.disk : IsPrefix(root, p) /\ Len(p) = Len(root) + 3}
             wanted == {p \in files :
                          /\ f_years # Nothing => hive_year(p[Len(root) + 1]) \in Range(f_years.list)
                          /\ f_states # Nothing => hive_state(p[Len(root) + 2]) \in Range(f_states.list)}
         IN IF root \notin c.dirs THEN Raise(c, "FileNotFoundError")
            ELSE IF Failing(c, "load") THEN Raise(Spent(c), "IOError")
            ELSE IF \E p \in wanted : ~IsComplete(c.disk[p]) THEN Raise(c, "ArrowInvalid")
            ELSE Return(c, [data |-> [parts |-> {[YEAR |-> hive_year(p[Len(root) + 1]),
                                                  STATE_CODE |-> hive_state(p[Len(root) + 2]),
                                                  data |-> c.disk[p].data] : p \in wanted}],
                            index |-> "range", geometry |-> geometry])
      : c \in {cc} })

\* a reader that gives no filters to the read
get_tract_df_unfiltered(cc, years, state_codes, geometry) ==
  Only({ Only({ Only({
    IF c.err # NoErr THEN c
    ELSE IF s.err # NoErr THEN s
    ELSE IF b.err # NoErr THEN b
    ELSE read_tract(b, Nothing, Nothing, geometry)
      : b \in {prep_loop(s, Cross(IF truthy(years) THEN years.list ELSE TRACT_YEARS,
                                  IF truthy(state_codes) THEN state_codes.list ELSE STATE_CODES))} })
      : s \in {IF truthy(state_codes) THEN c ELSE get_state_df(c, FALSE, "5m")} })
      : c \in {cc} })

get_tract_df(cc, years, state_codes, geometry) ==
  Only({ Only({ Only({
    IF c.err # NoErr THEN c
    ELSE IF s.err # NoErr THEN s
    ELSE IF b.err # NoErr THEN b
    ELSE read_tract(b, IF truthy(years) THEN years ELSE Nothing,
                    IF truthy(state_codes) THEN state_codes ELSE Nothing, geometry)
      : b \in {prep_loop(s, Cross(IF truthy(years) THEN years.list ELSE TRACT_YEARS,
                                  IF truthy(state_codes) THEN state_codes.list ELSE STATE_CODES))} })
      : s \in {IF truthy(state_codes) THEN c ELSE get_state_df(c, FALSE, "5m")} })
      : c \in {cc} })

(***************************************************************************)
(* agcensus.py                                                             *)
(***************************************************************************)
AG_PATH == [source |-> <<"data", "source", "agcensus">>, proc |-> <<"data", "agcensus">>]
AG_PQ_PART == {2002, 2007, 2012, 2017}
pq_part(year) == AG_PATH.proc \o <<ToString(year), "part.pq">>

init_dirs(c) == mkdir(mkdir(c, AG_PATH.source), AG_PATH.proc)

agcensus_cleanup(c, remove_downloaded) ==
  rmtree(IF remove_downloaded THEN rmtree(c, AG_PATH.source) ELSE c, AG_PATH.proc)

qs_url(year) == <<"ftp.nass.usda.gov", "quickstats", "qs.census" \o ToString(year) \o ".txt.gz">>
qs_src_path(year) == AG_PATH.source \o <<url_name(qs_url(year))>>

_get_qs_src(cc, year) ==
  Only({
    IF cc.err # NoErr THEN cc
    ELSE IF exists(c, qs_src_path(year)) THEN Return(c, qs_src_path(year))
    ELSE Only({ IF d.err # NoErr THEN d ELSE Return(d, qs_src_path(year))
                  : d \in {download_file(c, qs_url(year), parent(qs_src_path(year)), url_name(qs_url(year)))} })
      : c \in {init_dirs(cc)} })

_proc_qs_to_pq(cc, year) ==
  Only({
    IF c.err # NoErr THEN c
    ELSE IF year \notin AG_PQ_PART THEN Raise(c, "KeyError")
    ELSE Only({ Only({
           IF df.err # NoErr THEN df
           ELSE IF d.err # NoErr THEN d
           ELSE Return(d, Nothing)
             : d \in {dump_pq(mkdir(df, parent(pq_part(year))), df.ret, pq_part(year))} })
             : df \in {compute(del_year(assert_year(read_rows(_get_qs_src(Invoke(c, pq_part(year)), year),
                                                              year), year)))} })
      : c \in {cc} })

RECURSIVE agcensus_parts(_, _)
agcensus_parts(cc, years) ==
  Only({
    IF years = <<>> \/ c.err # NoErr THEN c
    ELSE IF Head(years) \notin AG_PQ_PART THEN Raise(c, "KeyError")
    ELSE agcensus_parts(IF ~exists(c, pq_part(Head(years))) THEN _proc_qs_to_pq(c, Head(years)) ELSE c,
                        Tail(years))
      : c \in {cc} })

\* agcensus.get_df: c.filters is the list object that was passed as filters;
\* filters.append changes that object
agcensus_get_df(cc, years, cols, filters) ==
  Only({ IF b.err # NoErr THEN b
         ELSE read_dataset([b EXCEPT !.filters = with_year_filter(filters, years)],
                           AG_PATH.proc, cols, with_year_filter(filters, years))
           : b \in {agcensus_parts([cc EXCEPT !.filters = filters], years)} })

\* agcensus.test_get_df
agcensus_test_get_df(cc, redownload) ==
  Only({
    IF d.err # NoErr THEN d
    ELSE IF d.ret.data.rows = {} THEN Raise(d, "AssertionError")
    ELSE Return(d, Nothing)
      : d \in {agcensus_get_df(agcensus_cleanup(cc, redownload), <<2002, 2007, 2012, 2017>>,
                                [list |-> <<"YEAR", "SECTOR_DESC", "VALUE">>], Nothing)} })

(***************************************************************************)
(* qcew.py                                                                 *)
(***************************************************************************)
QCEW_PATH == [source |-> <<"data", "qcew", "source">>, proc |-> <<"data", "qcew", "qcew.parquet">>]

_init_dirs(c) == mkdir(mkdir(c, QCEW_PATH.source), QCEW_PATH.proc)

qcew_cleanup(c, remove_downloaded) ==
  rmtree(IF remove_downloaded THEN rmtree(c, QCEW_PATH.source) ELSE c, QCEW_PATH.proc)

qcew_url(year) ==
  <<"data.bls.gov", "cew", "data", "files", ToString(year), "csv", ToString(year) \o "_annual_singlefile.zip">>
qcew_src_path(year) == QCEW_PATH.source \o <<url_name(qcew_url(year))>>

_get_src(cc, year) ==
  Only({
    IF c.err # NoErr THEN c
    ELSE download_file(_init_dirs(c), qcew_url(year), QCEW_PATH.source, url_name(qcew_url(year)))
      : c \in {cc} })

qcew_part_path(year) == QCEW_PATH.proc \o <<ToString(year), "part.pq">>

\* a builder that does not look for the partition file first
_build_pq_unguarded(cc, year) ==
  Only({
    IF c.err # NoErr THEN c
    ELSE Only({ Only({
           IF df.err # NoErr THEN df
           ELSE IF d.err # NoErr THEN d
           ELSE Return(d, Nothing)
             : d \in {dump_pq(mkdir(df, parent(qcew_part_path(year))), df.ret, qcew_part_path(year))} })
             : df \in {compute(del_year(assert_year(read_rows(_get_src(Invoke(c, qcew_part_path(year)), year),
                                                              year), year)))} })
      : c \in {cc} })

_build_pq(cc, year) ==
  Only({
    IF c.err # NoErr THEN c
    ELSE IF exists(c, qcew_part_path(year)) THEN Return(c, Nothing)
    ELSE Only({ Only({
           IF df.err # NoErr THEN df
           ELSE IF d.err # NoErr THEN d
           ELSE Return(d, Nothing)
             : d \in {dump_pq(mkdir(df, parent(qcew_part_path(year))), df.ret, qcew_part_path(year))} })
             : df \in {compute(del_year(assert_year(read_rows(_get_src(Invoke(c, qcew_part_path(year)), year),
                                                              year), year)))} })
      : c \in {cc} })

RECURSIVE qcew_parts(_, _)
qcew_parts(cc, years) ==
  Only({
    IF years = <<>> \/ c.err # NoErr THEN c
    ELSE qcew_parts(IF ~exists(c, qcew_part_path(Head(years))) THEN _build_pq(c, Head(years)) ELSE c,
                    Tail(years))
      : c \in {cc} })

qcew_get_df(cc, years, cols, filters) ==
  Only({ IF b.err # NoErr THEN b
         ELSE read_dataset([b EXCEPT !.filters = with_year_filter(filters, years)],
                           QCEW_PATH.proc, cols, with_year_filter(filters, years))
           : b \in {qcew_parts([cc EXCEPT !.filters = filters], years)} })

(***************************************************************************)
(* The state machine: one action per call of an interface function.  A     *)
(* call takes its arguments and the fault that strikes it from small sets. *)
(***************************************************************************)
NoFiles == [p \in {} |-> Nothing]

Done(op, args, c) ==
  [op |-> op, args |-> args, err |-> c.err, ret |-> c.ret,
   invoked |-> c.invoked, downloaded |-> c.downloaded, dumped |-> c.dumped]

Commit(op, args, c) ==
  /\ disk' = c.disk
  /\ dirs' = c.dirs
  /\ built' = built \cup c.dumped
  /\ last' = Done(op, args, c)
  /\ UNCHANGED <<remote, procs, held>>

CommitCleanup(op, args, c) ==
  /\ disk' = c.disk
  /\ dirs' = c.dirs
  /\ built' = built \cap DOMAIN c.disk
  /\ last' = Done(op, args, c)
  /\ UNCHANGED <<remote, procs, held>>

\* processes that call get_cbp_raw side by side; a call is at one of the
\* statements of wrapped, of _get_cbp_src or of the two writes
Procs == {1, 2}
Idle == [pc |-> "idle", res |-> Nothing, err |-> NoErr, ret |-> Nothing]

\* geography.py creates its two directories when it is imported (lines 31-32)
Init ==
  /\ disk = NoFiles
  /\ dirs = mkdir(mkdir([dirs |-> {}], GEO_PATH.source), GEO_PATH.geo).dirs
  /\ remote = 1
  /\ built = {}
  /\ last = Done("init", <<>>, Enter("none"))
  /\ procs = [i \in Procs |-> Idle]
  /\ held = Nothing

\* the publisher revises the remote data; no call is made
SourceChange ==
  /\ remote < MaxVersion
  /\ remote' = remote + 1
  /\ UNCHANGED <<disk, dirs, built, last, procs, held>>

GetCbpRaw(geos) ==
  \E geo \in geos, year \in Years, fault \in Faults :
    Commit("get_cbp_raw", <<geo, year>>, get_cbp_raw(Enter(fault), geo, year))

GetEfsyYear ==
  \E year \in Years, fault \in Faults :
    Commit("get_efsy_year", <<year>>, get_efsy_year(Enter(fault), year))

GetCbpYear ==
  \E year \in Years, fault \in Faults :
    Commit("get_cbp_year", <<year>>, get_cbp_year(Enter(fault), year))

GetCbpRawYears(geos, years, faults) ==
  \E geo \in geos, year \in years, fault \in faults :
    Commit("get_cbp_raw", <<geo, year>>, get_cbp_raw(Enter(fault), geo, year))

GetEfsyYearIn(years, faults) ==
  \E year \in years, fault \in faults :
    Commit("get_efsy_year", <<year>>, get_efsy_year(Enter(fault), year))

GetEfsyPanel(industries, faults) ==
  \E industry \in industries, fault \in faults :
    Commit("_get_efsy_panel", <<industry>>, _get_efsy_panel(Enter(fault), industry))

PanelFilterArgs ==
  {Nothing, [list |-> <<>>], [list |-> <<[col |-> "year", val |-> <<2015>>]>>],
   [list |-> <<[col |-> "year", val |-> <<2015, 2016>>], [col |-> "own", val |-> <<"0">>]>>]}
GetEfsyPanelFiltered(industries, faults) ==
  \E industry \in industries, filters \in PanelFilterArgs, fault \in faults :
    Commit("get_efsy_panel", <<industry, filters>>, get_efsy_panel(Enter(fault), industry, filters))

CbpGetDfYears(geos, years, faults) ==
  \E geo \in geos, year \in years, fault \in faults :
    Commit("cbp.get_df", <<geo, year>>, cbp_get_df(Enter(fault), geo, year))

YearFilterArgs == {Nothing, [list |-> <<>>], [list |-> <<[col |-> "year", val |-> <<2015>>]>>]}
GetParquet(geos, colArgs, filterArgs, faults) ==
  \E geo \in geos, cols \in colArgs, filters \in filterArgs, fault \in faults :
    Commit("get_parquet", <<geo, cols, filters>>, get_parquet(Enter(fault), geo, cols, filters))

GetCbpRawPq(geos) ==
  \E geo \in geos, year \in Years, fault \in Faults :
    Commit("get_cbp_raw_pq", <<geo, year>>, get_cbp_raw_pq(Enter(fault), geo, year))

GetCbpYearPq ==
  \E year \in Years, fault \in Faults :
    Commit("get_cbp_year_pq", <<year>>, get_cbp_year_pq(Enter(fault), year))

GetWage(geos, faults) ==
  \E geo \in geos, year \in Years, fault \in faults :
    Commit("get_wage", <<geo, year>>, get_wage(Enter(fault), geo, year))

CbpGetDf(geos) ==
  \E geo \in geos, year \in Years, fault \in Faults :
    Commit("cbp.get_df", <<geo, year>>, cbp_get_df(Enter(fault), geo, year))

PreprocGetCbpRaw ==
  \E fault \in Faults :
    Commit("preproc_get_cbp_raw", <<>>, preproc_get_cbp_raw(Enter(fault)))

BuildAllParquet ==
  \E fault \in Faults :
    Commit("build_all_parquet", <<>>, build_all_parquet(Enter(fault)))

CbpCleanup ==
  \E remove_downloaded \in BOOLEAN :
    CommitCleanup("cbp.cleanup", <<remove_downloaded>>, cbp_cleanup(Enter("none"), remove_downloaded))

\* geography
Scales == {"5m"}
GetStateDf ==
  \E geometry \in BOOLEAN, scale \in Scales, fault \in Faults :
    Commit("get_state_df", <<geometry, scale>>, get_state_df(Enter(fault), geometry, scale))

DataCleanupState ==
  \E which \in {"downloaded", "processed", "all"} :
    CommitCleanup("_data_cleanup_state", <<which>>, _data_cleanup_state(Enter("none"), which))

\* (1990, '5m') is not a key of the urls table
CountyKeys == {<<2020, "20m">>, <<2020, "5m">>, <<1990, "5m">>}
GetCountySrc ==
  \E k \in CountyKeys, fault \in Faults :
    Commit("get_county_src", k, get_county_src(Enter(fault), k[1], k[2]))

TractKeys == {<<2020, "55">>}
PrepTractDf ==
  \E k \in TractKeys, fault \in Faults :
    Commit("_prep_tract_df", k, _prep_tract_df(Enter(fault), k[1], k[2]))

PrepTractDfKeys(keys, faults) ==
  \E k \in keys, fault \in faults :
    Commit("_prep_tract_df", k, _prep_tract_df(Enter(fault), k[1], k[2]))

GetTractDf(yearArgs, stateArgs, faults) ==
  \E years \in yearArgs, state_codes \in stateArgs, geometry \in BOOLEAN, fault \in faults :
    Commit("get_tract_df", <<years, state_codes, geometry>>,
           get_tract_df(Enter(fault), years, state_codes, geometry))

\* the source getters called by themselves
GetCbpSrc(geos, years) ==
  \E geo \in geos, year \in years, fault \in Faults :
    Commit("_get_cbp_src", <<geo, year>>, _get_cbp_src(Enter(fault), geo, year))

BeaIoGetSrc(years) ==
  \E year \in years, fault \in Faults :
    Commit("bea_io._get_src", <<year>>, bea_io_get_src(Enter(fault), year))

NaicsGetSrc(years) ==
  \E year \in years, fault \in Faults :
    Commit("naics.get_src", <<year>>, naics_get_src(Enter(fault), year))

GetTractSrc(keys) ==
  \E k \in keys, fault \in Faults :
    Commit("get_tract_src", k, get_tract_src(Enter(fault), k[1], k[2]))

GetQsSrc(years) ==
  \E year \in years, fault \in Faults :
    Commit("_get_qs_src", <<year>>, _get_qs_src(Enter(fault), year))

\* agcensus and qcew
FilterArgs == {Nothing, [list |-> <<>>], [list |-> <<[col |-> "own", val |-> <<"0">>]>>]}
ColArgs == {Nothing, [list |-> <<"year", "own">>]}

AgcensusGetDf(yearLists, colArgs, filterArgs, faults) ==
  \E years \in yearLists, cols \in colArgs, filters \in filterArgs, fault \in faults :
    Commit("agcensus.get_df", <<years, cols, filters>>, agcensus_get_df(Enter(fault), years, cols, filters))

AgcensusCleanup ==
  \E remove_downloaded \in BOOLEAN :
    CommitCleanup("agcensus.cleanup", <<remove_downloaded>>, agcensus_cleanup(Enter("none"), remove_downloaded))

\* a cleanup and a build in one call: what the cleanup removed is no longer
\* built, what the call dumped is
AgcensusTestGetDf(faults) ==
  \E redownload \in BOOLEAN, fault \in faults :
    LET c == agcensus_test_get_df(Enter(fault), redownload)
    IN /\ disk' = c.disk
       /\ dirs' = c.dirs
       /\ built' = (built \cap DOMAIN c.disk) \cup c.dumped
       /\ last' = Done("agcensus.test_get_df", <<redownload>>, c)
       /\ UNCHANGED <<remote, procs, held>>

\* a caller makes a filters list and keeps it: filters = [...]
HoldFilters ==
  \E filters \in FilterArgs \ {Nothing} :
    /\ held' = filters
    /\ last' = Done("list", <<filters>>, Enter("none"))
    /\ UNCHANGED <<disk, dirs, remote, built, procs>>

\* get_df(years, cols, filters) with the list the caller keeps
AgcensusGetDfHeld(yearLists, colArgs) ==
  \E years \in yearLists, cols \in colArgs :
    LET c == agcensus_get_df(Enter("none"), years, cols, held)
    IN /\ held # Nothing
       /\ Len(held.list) < MaxFilters
       /\ disk' = c.disk
       /\ dirs' = c.dirs
       /\ built' = built \cup c.dumped
       /\ last' = Done("agcensus.get_df", <<years, cols, held>>, c)
       /\ held' = c.filters
       /\ UNCHANGED <<remote, procs>>

QcewGetDfHeld(yearLists, colArgs) ==
  \E years \in yearLists, cols \in colArgs :
    LET c == qcew_get_df(Enter("none"), years, cols, held)
    IN /\ held # Nothing
       /\ Len(held.list) < MaxFilters
       /\ disk' = c.disk
       /\ dirs' = c.dirs
       /\ built' = built \cup c.dumped
       /\ last' = Done("qcew.get_df", <<years, cols, held>>, c)
       /\ held' = c.filters
       /\ UNCHANGED <<remote, procs>>

QcewGetSrc(years) ==
  \E year \in years, fault \in Faults :
    Commit("qcew._get_src", <<year>>, _get_src(Enter(fault), year))

QcewBuildPq(years, faults) ==
  \E year \in years, fault \in faults :
    Commit("qcew._build_pq", <<year>>, _build_pq(Enter(fault), year))

QcewGetDf(yearLists, colArgs, filterArgs, faults) ==
  \E years \in yearLists, cols \in colArgs, filters \in filterArgs, fault \in faults :
    Commit("qcew.get_df", <<years, cols, filters>>, qcew_get_df(Enter(fault), years, cols, filters))

QcewCleanup ==
  \E remove_downloaded \in BOOLEAN :
    CommitCleanup("qcew.cleanup", <<remove_downloaded>>, qcew_cleanup(Enter("none"), remove_downloaded))

\* the raw files get_wage reads.  A cell is the employment and the first
\* quarter payroll (in $1000) of a row: a wage of 1000, a wage of 20, a
\* cell that is withheld (0, 0), and a wage of 0.25 that rounds to 0.  The
\* total of the nation is never withheld.
Cells == {[emp |-> 4, qp1 |-> 1], [emp |-> 200, qp1 |-> 1], [emp |-> 0, qp1 |-> 0], [emp |-> 16000, qp1 |-> 1]}
NationCells == {[emp |-> 4, qp1 |-> 1], [emp |-> 200, qp1 |-> 1]}

UsTables ==
  {{[naics |-> "------", emp |-> t.emp, qp1 |-> t.qp1],
    [naics |-> "11----", emp |-> s.emp, qp1 |-> s.qp1],
    [naics |-> "111///", emp |-> i.emp, qp1 |-> i.qp1]} : t \in NationCells, s \in Cells, i \in Cells}
StateTables ==
  {{[fipstate |-> "55", naics |-> "------", emp |-> t.emp, qp1 |-> t.qp1],
    [fipstate |-> "55", naics |-> "111///", emp |-> i.emp, qp1 |-> i.qp1]} : t \in Cells, i \in Cells}
CountyTables ==
  {{[fipstate |-> "55", fipscty |-> "001", naics |-> "------", emp |-> t.emp, qp1 |-> t.qp1],
    [fipstate |-> "55", fipscty |-> "001", naics |-> "111///", emp |-> i.emp, qp1 |-> i.qp1]} :
      t \in Cells, i \in Cells}

WageYear == Only(Years)
RawFile(rows) == to_parquet(DataFrame([rows |-> rows]))

InitWage ==
  /\ \E us \in UsTables, st \in StateTables, co \in CountyTables :
       disk = [p \in {cbp_raw_pq_path(geo, WageYear) : geo \in GeoSet} |->
                 IF p = cbp_raw_pq_path("us", WageYear) THEN RawFile(us)
                 ELSE IF p = cbp_raw_pq_path("state", WageYear) THEN RawFile(st)
                 ELSE RawFile(co)]
  /\ dirs = UNION {Ancestors(cbp_raw_pq_path(geo, WageYear)) : geo \in GeoSet}
  /\ remote = 1
  /\ built = {cbp_raw_pq_path(geo, WageYear) : geo \in GeoSet}
  /\ last = Done("init", <<>>, Enter("none"))
  /\ procs = [i \in Procs |-> Idle]
  /\ held = Nothing

GetWageDf ==
  \E geo \in GeoSet :
    Commit("get_wage", <<geo, WageYear>>, get_wage_df(Enter("none"), geo, WageYear))

\* bea_io: the lists of codes _split_codes is called with.  An item is a
\* code a, or a range from a code a to the code with the last digit b
\* (b = -1: no range); (19, 1) is a range that ends before it begins and
\* (1, 23) one whose end has two digits.
CodeItems ==
  {[a |-> 1, b |-> -1], [a |-> 23, b |-> -1], [a |-> 5174, b |-> -1],
   [a |-> 1, b |-> 3], [a |-> 5, b |-> 7], [a |-> 5, b |-> 5], [a |-> 31, b |-> 3],
   [a |-> 48, b |-> 9], [a |-> 5174, b |-> 9], [a |-> 19, b |-> 1], [a |-> 1, b |-> 23]}
ItemLists == UNION {[1..n -> CodeItems] : n \in 1..MaxItems}

item_str(it) == IF it.b < 0 THEN ToString(it.a) ELSE ToString(it.a) \o "-" \o ToString(it.b)

\* sep.join(items)
RECURSIVE join(_, _)
join(sep, items) ==
  IF Len(items) = 1 THEN item_str(items[1])
  ELSE item_str(items[1]) \o sep \o join(sep, Tail(items))

SplitCodes ==
  \E items \in ItemLists :
    Commit("_split_codes", <<items>>, _split_codes(Enter("none"), join(", ", items)))

\* index: the project tree.  The package directory is there whenever
\* index.py runs; the notebook directory and the checked-out submodule come
\* and go, and a directory or another link can be where a link is to be.
TreeDirs == {<<"nbs">>, <<"submodules", "reseng", "reseng">>, <<"old">>, <<"nbs", "pubdata">>, <<"pubdata", "reseng">>}

InitIndex ==
  /\ disk = NoFiles
  /\ dirs = {<<"pubdata">>}
  /\ remote = 1
  /\ built = {}
  /\ last = Done("init", <<>>, Enter("none"))
  /\ procs = [i \in Procs |-> Idle]
  /\ held = Nothing

\* mkdir -p d, git submodule update
MakeDir ==
  \E d \in TreeDirs :
    /\ d \notin dirs /\ d \notin DOMAIN disk
    /\ \A a \in Ancestors(d) : a \notin DOMAIN disk
    /\ Commit("mkdir", <<d>>, mkdir(Enter("none"), d))

\* rm -r d, git submodule deinit
RemoveDir ==
  \E d \in TreeDirs :
    /\ d \in dirs
    /\ CommitCleanup("rmdir", <<d>>, rmtree(Enter("none"), d))

\* ln -s ../old link: a link left from an older layout of the project
OldLink ==
  \E i \in DOMAIN INDEX_LINKS :
    /\ INDEX_LINKS[i].link \notin dirs /\ INDEX_LINKS[i].link \notin DOMAIN disk
    /\ parent(INDEX_LINKS[i].link) \in dirs
    /\ Commit("ln", <<INDEX_LINKS[i].link>>,
              symlink_to(Enter("none"), INDEX_LINKS[i].link, <<"..", "old">>))

\* init takes no argument; a run is recorded with the call that came before
\* it and how that call ended
IndexInit ==
  \E fault \in {"none", "symlink", "reseng"} :
    Commit("index.init", <<last.op, last.err>>, index_init(Enter(fault)))

(***************************************************************************)
(* Calls of get_cbp_raw by processes running side by side, for one key.    *)
(* Each statement of wrapped and of _get_cbp_src is a step, and a write    *)
(* (the download, the dump) is two steps: the file is created empty, then  *)
(* it holds what was written.  Nothing in the code keeps the steps of one  *)
(* process from falling between the steps of another.                      *)
(***************************************************************************)
RaceKey == <<"county", 2016>>
RaceFile == cbp_raw_path(RaceKey[1], RaceKey[2])
RaceSrc == cbp_src_path(RaceKey[1], RaceKey[2])

At(i, pc) == procs[i].pc = pc
Goto(i, pc) == procs' = [procs EXCEPT ![i].pc = pc]
Finish(i, c) == procs' = [procs EXCEPT ![i] = [pc |-> "done", res |-> Nothing, err |-> c.err, ret |-> c.ret]]

\* get_cbp_raw(geo, year) is called
RaceCall(i) ==
  /\ At(i, "idle")
  /\ Goto(i, "exists")
  /\ UNCHANGED <<disk, dirs, remote, built, last, held>>

\* wrapped: if p.exists()
RaceExists(i) ==
  /\ At(i, "exists")
  /\ Goto(i, IF exists(Enter("none"), RaceFile) THEN "load" ELSE "src_exists")
  /\ UNCHANGED <<disk, dirs, remote, built, last, held>>

\* wrapped: res = load(p); return res
RaceLoad(i) ==
  /\ At(i, "load")
  /\ Finish(i, load_pq(Enter("none"), RaceFile))
  /\ UNCHANGED <<disk, dirs, remote, built, last, held>>

\* _get_cbp_src: if path.exists(): return path
RaceSrcExists(i) ==
  /\ At(i, "src_exists")
  /\ Goto(i, IF exists(Enter("none"), RaceSrc) THEN "read" ELSE "download")
  /\ UNCHANGED <<disk, dirs, remote, built, last, held>>

\* download_file: the directory is made; a file that is there is kept,
\* otherwise the file is created and the transfer begins
RaceDownloadOpen(i) ==
  /\ At(i, "download")
  /\ dirs' = mkdir(Enter("none"), parent(RaceSrc)).dirs
  /\ IF RaceSrc \in DOMAIN disk
       THEN Goto(i, "read") /\ UNCHANGED disk
       ELSE Goto(i, "downloading") /\ disk' = PutFile(disk, RaceSrc, Truncated)
  /\ UNCHANGED <<remote, built, last, held>>

\* download_file: the transfer ends
RaceDownloadClose(i) ==
  /\ At(i, "downloading")
  /\ disk' = PutFile(disk, RaceSrc,
                     _get_cbp_src([Enter("none") EXCEPT !.disk = NoFiles], RaceKey[1], RaceKey[2]).disk[RaceSrc])
  /\ Goto(i, "read")
  /\ UNCHANGED <<dirs, remote, built, last, held>>

\* get_cbp_raw: df = pd.read_csv(path, ...)
RaceRead(i) ==
  /\ At(i, "read")
  /\ LET c == read_src(Return(Enter("none"), RaceSrc))
     IN IF c.err # NoErr THEN Finish(i, c)
        ELSE procs' = [procs EXCEPT ![i].pc = "mkdir", ![i].res = c.ret]
  /\ UNCHANGED <<disk, dirs, remote, built, last, held>>

\* wrapped: p.parent.mkdir(parents=True, exist_ok=True)
RaceMkdir(i) ==
  /\ At(i, "mkdir")
  /\ dirs' = mkdir(Enter("none"), parent(RaceFile)).dirs
  /\ Goto(i, "dump")
  /\ UNCHANGED <<disk, remote, built, last, held>>

\* wrapped: dump(res, p) creates the file
RaceDumpOpen(i) ==
  /\ At(i, "dump")
  /\ disk' = PutFile(disk, RaceFile, Truncated)
  /\ Goto(i, "dumping")
  /\ UNCHANGED <<dirs, remote, built, last, held>>

\* wrapped: dump(res, p) has written the file; return res
RaceDumpClose(i) ==
  /\ At(i, "dumping")
  /\ LET c == dump_pq(Enter("none"), procs[i].res, RaceFile)
     IN /\ disk' = c.disk
        /\ built' = built \cup c.dumped
        /\ Finish(i, Return(c, procs[i].res))
  /\ UNCHANGED <<dirs, remote, last, held>>

(***************************************************************************)
(* Specifications: sessions that work on one part of the data tree.        *)
(***************************************************************************)

\* the cache decorator on get_cbp_raw
Next ==
  \/ SourceChange
  \/ GetCbpRaw(GeoSet)
  \/ CbpCleanup

Spec == Init /\ [][Next]_vars

\* the nested caches of the county panel
NextPanel ==
  \/ SourceChange
  \/ GetCbpYear
  \/ GetEfsyYear
  \/ CbpCleanup

SpecPanel == Init /\ [][NextPanel]_vars

\* decorator caches and hand-written caches side by side
NextRoundTrip ==
  \/ SourceChange
  \/ GetCbpRaw({"county"})
  \/ CbpGetDf({"us"})
  \/ GetStateDf
  \/ CbpCleanup
  \/ DataCleanupState

SpecRoundTrip == Init /\ [][NextRoundTrip]_vars

\* source getters
NextFetch ==
  \/ SourceChange
  \/ GetCountySrc
  \/ QcewGetSrc({2020, 2021})
  \/ QcewCleanup

SpecFetch == Init /\ [][NextFetch]_vars

\* partition files of the three partitioned stores
NextPart ==
  \/ SourceChange
  \/ QcewBuildPq({2020}, PartFaults)
  \/ QcewCleanup
  \/ PrepTractDf
  \/ AgcensusGetDf({<<2017>>}, {Nothing}, {Nothing}, PartFaults)
  \/ AgcensusCleanup

SpecPart == Init /\ [][NextPart]_vars

\* reading the partitioned stores, several years on disk
StoreFaults == {"none", "download_skewed", "load"}
NextStore ==
  \/ AgcensusGetDf({<<2012>>, <<2012, 2017>>}, ColArgs, FilterArgs, StoreFaults)
  \/ AgcensusCleanup
  \/ QcewGetDf({<<2021>>, <<2020, 2021>>}, ColArgs, FilterArgs, StoreFaults)
  \/ QcewCleanup

SpecStore == Init /\ [][NextStore]_vars

\* the builder loops
NextBuild ==
  \/ SourceChange
  \/ PreprocGetCbpRaw
  \/ BuildAllParquet
  \/ CbpCleanup

SpecBuild == Init /\ [][NextBuild]_vars

\* the three cleanup functions, each after its module has made files
NextCleanup ==
  \/ GetCbpRaw({"county"})
  \/ CbpCleanup
  \/ AgcensusGetDf({<<2017>>}, {Nothing}, {Nothing}, Faults)
  \/ AgcensusCleanup
  \/ QcewGetDf({<<2020>>}, {Nothing}, {Nothing}, Faults)
  \/ QcewCleanup

SpecCleanup == Init /\ [][NextCleanup]_vars

\* the cached accessors of cbp between cleanups
NextAccessors ==
  \/ GetCbpRaw({"county"})
  \/ CbpGetDf({"county"})
  \/ GetCbpYear
  \/ GetEfsyYear
  \/ GetEfsyPanel({"native"}, Faults)
  \/ CbpCleanup

SpecAccessors == Init /\ [][NextAccessors]_vars

\* the partitions of cbp.get_df, some of them built, read as one table
NextParquet ==
  \/ SourceChange
  \/ CbpGetDfYears({"county"}, {2015, 2016}, Faults)
  \/ GetParquet({"county", "state"}, ColArgs, YearFilterArgs, {"none", "load"})
  \/ CbpCleanup

SpecParquet == Init /\ [][NextParquet]_vars

\* source getters called with keys they have an url for and keys they have
\* none for: ("tract", 2016), 2021, 2013, (2015, "55"), (1990, "5m")
NextKeys ==
  \/ GetCbpSrc({"county", "tract"}, {2016})
  \/ BeaIoGetSrc({2021, 2022})
  \/ NaicsGetSrc({2012, 2013})
  \/ GetTractSrc({<<2020, "55">>, <<2015, "55">>})
  \/ GetCountySrc

SpecKeys == Init /\ [][NextKeys]_vars

\* downloads that fail, and the calls that come after them
NextDownload ==
  \/ SourceChange
  \/ GetCbpSrc({"county"}, {2016})
  \/ GetQsSrc({2017})
  \/ CbpCleanup
  \/ AgcensusCleanup

SpecDownload == Init /\ [][NextDownload]_vars

\* the functions under the decorator, each called with several keys
NextPaths ==
  \/ GetCbpRawYears({"us", "county"}, {2015, 2016}, {"none"})
  \/ GetEfsyYearIn({2015, 2016}, {"none"})
  \/ GetEfsyPanel({"native", "naics"}, {"none"})
  \/ CbpCleanup

SpecPaths == Init /\ [][NextPaths]_vars

\* two processes, each calling get_cbp_raw once for the same key
NextRace ==
  \/ SourceChange
  \/ \E i \in Procs : RaceCall(i)
  \/ \E i \in Procs : RaceExists(i)
  \/ \E i \in Procs : RaceLoad(i)
  \/ \E i \in Procs : RaceSrcExists(i)
  \/ \E i \in Procs : RaceDownloadOpen(i)
  \/ \E i \in Procs : RaceDownloadClose(i)
  \/ \E i \in Procs : RaceRead(i)
  \/ \E i \in Procs : RaceMkdir(i)
  \/ \E i \in Procs : RaceDumpOpen(i)
  \/ \E i \in Procs : RaceDumpClose(i)

SpecRace == Init /\ [][NextRace]_vars

\* the interface function get_wage, also with a geography it does not know
NextWage ==
  \/ SourceChange
  \/ GetWage(GeoSet \cup {"tract"}, {"none", "download", "producer", "load"})
  \/ GetCbpRaw({"us"})
  \/ CbpCleanup

SpecWage == Init /\ [][NextWage]_vars

\* cleanup and get_df in a row, from the disks that earlier calls leave
NextSequence ==
  \/ SourceChange
  \/ GetQsSrc({2012, 2017})
  \/ AgcensusTestGetDf({"none"})
  \/ AgcensusCleanup

SpecSequence == Init /\ [][NextSequence]_vars

\* the functions that return the path of a cache file
NextPq ==
  \/ SourceChange
  \/ GetCbpRawPq({"county"})
  \/ GetCbpYearPq
  \/ CbpCleanup

SpecPq == Init /\ [][NextPq]_vars

\* calls of get_df by a caller that passes the same filters list each time
NextFilters ==
  \/ HoldFilters
  \/ AgcensusGetDfHeld({<<2012>>, <<2017>>}, {Nothing})
  \/ QcewGetDfHeld({<<2020>>, <<2021>>}, {Nothing})
  \/ AgcensusCleanup

SpecFilters == Init /\ [][NextFilters]_vars

\* the EFSY panel through its interface and through the cached function
NextEfsyPanel ==
  \/ SourceChange
  \/ GetEfsyPanelFiltered({"native", "naics"}, Faults)
  \/ GetEfsyPanel({"native"}, {"none", "dump_partial"})
  \/ CbpCleanup

SpecEfsyPanel == Init /\ [][NextEfsyPanel]_vars

\* the tract store, built by get_tract_df and by single build requests
NextTract ==
  \/ PrepTractDfKeys({<<2020, "56">>, <<1990, "55">>}, {"none"})
  \/ GetTractDf({Nothing, [list |-> <<2020>>], [list |-> <<2010, 2020>>]},
                {Nothing, [list |-> <<"55">>]}, {"none", "producer", "load"})

SpecTract == Init /\ [][NextTract]_vars

\* get_wage on the tables that the raw files can hold
NextWageData ==
  \/ GetWageDf

SpecWageData == InitWage /\ [][NextWageData]_vars

\* _split_codes on lists of codes and ranges
NextCodes ==
  \/ SplitCodes

SpecCodes == Init /\ [][NextCodes]_vars

\* index.init on the project trees it can find
NextIndex ==
  \/ MakeDir
  \/ RemoveDir
  \/ OldLink
  \/ IndexInit

SpecIndex == InitIndex /\ [][NextIndex]_vars

(***************************************************************************)
(* Properties.  A step that leaves remote alone is a call, and last' tells *)
(* which call it was.                                                      *)
(***************************************************************************)
ProducerErrors == {"ProducerError", "DownloadError", "ParserError"}

\* C1 - cache hit: when the file of get_cbp_raw(geo, year) exists at the
\* call, the producer is not invoked, nothing is downloaded or written, the
\* disk is left as it was, and a call that returns returns what
\* read_parquet reads from the file, whatever revision the file holds.
CacheHit ==
  [][\A geo \in GeoSet, year \in Years :
       (/\ remote' = remote
        /\ last'.op = "get_cbp_raw"
        /\ last'.args = <<geo, year>>
        /\ cbp_raw_path(geo, year) \in DOMAIN disk)
       => /\ last'.invoked = <<>>
          /\ last'.downloaded = <<>>
          /\ last'.dumped = {}
          /\ disk' = disk
          /\ dirs' = dirs
          /\ last'.err \in {NoErr, "IOError", "ArrowInvalid"}
          /\ last'.err = NoErr => last'.ret = read_parquet(disk[cbp_raw_path(geo, year)])
          /\ last'.err = "ArrowInvalid" => ~IsComplete(disk[cbp_raw_path(geo, year)])]_vars

\* a hit that returned a revision older than the one published now
CacheHitStale ==
  /\ last.op = "get_cbp_raw"
  /\ last.err = NoErr
  /\ last.invoked = <<>>
  /\ last.ret.data.v < remote

\* C2 - cache miss: when the file of get_cbp_raw(geo, year) does not exist
\* at the call and the call returns, the producer was invoked exactly once,
\* the directories above the file exist, the file holds the dump of the
\* producer's result, and that result is what the call returned.
CacheMiss ==
  [][\A geo \in GeoSet, year \in Years :
       LET p == cbp_raw_path(geo, year)
       IN (/\ remote' = remote
           /\ last'.op = "get_cbp_raw"
           /\ last'.args = <<geo, year>>
           /\ p \notin DOMAIN disk
           /\ last'.err = NoErr)
          => /\ last'.invoked = <<p>>
             /\ last'.ret = get_cbp_raw_func(Enter("none"), geo, year).ret
             /\ Ancestors(p) \subseteq dirs'
             /\ p \in DOMAIN disk'
             /\ disk'[p] = to_parquet(last'.ret)
             /\ last'.dumped = {p}]_vars

\* a miss that built the file from a source file downloaded by an earlier call
CacheMissBuilt ==
  /\ last.op = "get_cbp_raw"
  /\ last.err = NoErr
  /\ last.invoked # <<>>
  /\ last.downloaded = <<>>
  /\ cbp_raw_path(last.args[1], last.args[2]) \in DOMAIN disk

\* C5 - the producer raises on a miss: the exception is what the call ends
\* with, nothing was dumped, no file exists at the path, and a call with the
\* same key made now would invoke the producer again.
ProducerRaises ==
  (last.op = "get_cbp_raw" /\ last.err \in ProducerErrors)
  => LET p == cbp_raw_path(last.args[1], last.args[2])
     IN /\ last.invoked = <<p>>
        /\ last.ret = Nothing
        /\ last.dumped = {}
        /\ p \notin DOMAIN disk
        /\ get_cbp_raw(Enter("none"), last.args[1], last.args[2]).invoked = <<p>>

\* the producer raised after it had downloaded its source
ProducerRaisedLate ==
  /\ last.op = "get_cbp_raw"
  /\ last.err = "ProducerError"
  /\ last.downloaded # <<>>

\* C3 - at-most-once build: a producer whose result was dumped is not
\* invoked again for that key by any call, as long as no cleanup removed the
\* file; and no call invokes the producer of one key twice.
AtMostOnceBuild ==
  [][remote' = remote
     => /\ \A i \in 1..Len(last'.invoked) : last'.invoked[i] \notin built
        /\ \A i, j \in 1..Len(last'.invoked) :
             last'.invoked[i] = last'.invoked[j] => i = j]_vars

\* the panel of a year is rebuilt after a cleanup; the raw county file it
\* is made from was built before and is read back
PanelRebuiltFromBuiltRaw ==
  /\ last.op = "get_cbp_year"
  /\ last.err = NoErr
  /\ \E i \in 1..Len(last.invoked) : last.invoked[i] = cbp_year_path(last.args[1])
  /\ \A i \in 1..Len(last.invoked) : last.invoked[i] # cbp_raw_path("county", last.args[1])
  /\ cbp_raw_path("county", last.args[1]) \in built

\* the last call of an accessor, made again now
CallAgain ==
  IF last.op = "get_cbp_raw" THEN get_cbp_raw(Enter("none"), last.args[1], last.args[2])
  ELSE IF last.op = "cbp.get_df" THEN cbp_get_df(Enter("none"), last.args[1], last.args[2])
  ELSE get_state_df(Enter("none"), last.args[1], last.args[2])

Fetched(path, url) ==
  /\ (path \notin DOMAIN disk /\ last'.err = NoErr)
     => /\ last'.downloaded = <<path>>
        /\ last'.ret = path
        /\ disk' = PutFile(disk, path, RemoteFile(url, remote, FALSE))
  /\ path \in DOMAIN disk
     => /\ last'.err = NoErr
        /\ last'.downloaded = <<>>
        /\ last'.ret = path
        /\ disk' = disk

PartitionFiles ==
  {p \in DOMAIN disk :
     IsPrefix(QCEW_PATH.proc, p) \/ IsPrefix(AG_PATH.proc, p) \/ IsPrefix(GEO_PATH.tract, p)}

\* C7 - partition immutability: a partition file of qcew, agcensus or the
\* tract store that exists before a call other than a cleanup exists after
\* it with the same content; and a build request (_build_pq, _prep_tract_df,
\* the build loop of agcensus.get_df) for a key whose file exists runs no
\* producer and writes nothing.
PartitionImmutable ==
  [][(remote' = remote /\ last'.op \notin {"qcew.cleanup", "agcensus.cleanup"})
     => /\ \A p \in PartitionFiles : p \in DOMAIN disk' /\ disk'[p] = disk[p]
        /\ (last'.op = "qcew._build_pq" /\ qcew_part_path(last'.args[1]) \in DOMAIN disk)
           => (last'.err = NoErr /\ last'.invoked = <<>> /\ disk' = disk)
        /\ (last'.op = "_prep_tract_df" /\ tract_part_path(last'.args[1], last'.args[2]) \in DOMAIN disk)
           => (last'.err = NoErr /\ last'.invoked = <<>> /\ disk' = disk)
        /\ (last'.op = "agcensus.get_df" /\ \A i \in 1..Len(last'.args[1]) : pq_part(last'.args[1][i]) \in DOMAIN disk)
           => (last'.invoked = <<>> /\ disk' = disk)]_vars

\* _build_pq was asked for a year whose partition holds an older revision
\* of the data, and returned without building
BuildRequestOnOldPartition ==
  /\ last.op = "qcew._build_pq"
  /\ last.err = NoErr
  /\ last.invoked = <<>>
  /\ qcew_part_path(last.args[1]) \in DOMAIN disk
  /\ IsComplete(disk[qcew_part_path(last.args[1])])
  /\ disk[qcew_part_path(last.args[1])].data.v < remote

\* C8 - partition isolation: every row that get_df(years, cols, filters)
\* of agcensus or qcew returns has a year (from the directory name) that is
\* one of the requested years and is the year its source row carried, and
\* satisfies every filter of the caller, whatever other partitions are on
\* disk.
PartitionIsolation ==
  (last.op \in {"agcensus.get_df", "qcew.get_df"} /\ last.err = NoErr)
  => \A r \in last.ret.data.rows :
       /\ r.year \in Range(last.args[1])
       /\ r.year = r.from
       /\ last.args[3] # Nothing
          => \A i \in 1..Len(last.args[3].list) : Holds(last.args[3].list[i], r)

\* agcensus.get_df([2012], filters) returned rows while the partition of
\* 2017 was on disk
OneYearOfTwo ==
  /\ last.op = "agcensus.get_df"
  /\ last.args[1] = <<2012>>
  /\ last.err = NoErr
  /\ last.ret.data.rows # {}
  /\ last.args[3] # Nothing
  /\ last.args[3].list # <<>>
  /\ pq_part(2017) \in DOMAIN disk
  /\ IsComplete(disk[pq_part(2017)])

\* C9 - builder idempotence: a run of build_all_parquet or of
\* preproc_get_cbp_raw that follows a run of the same builder which
\* completed without an exception invokes no producer, downloads nothing,
\* writes nothing and leaves every file as it was.
BuilderIdempotent ==
  [][(/\ remote' = remote
      /\ last.op \in {"build_all_parquet", "preproc_get_cbp_raw"}
      /\ last.err = NoErr
      /\ last'.op = last.op)
     => /\ last'.invoked = <<>>
        /\ last'.downloaded = <<>>
        /\ last'.dumped = {}
        /\ disk' = disk
        /\ dirs' = dirs]_vars

\* build_all_parquet ran over files that an earlier run had built from an
\* older revision of the source, and built nothing
SecondBuildRun ==
  /\ last.op = "build_all_parquet"
  /\ last.err = NoErr
  /\ last.invoked = <<>>
  /\ \A geo \in GeoSet, year \in Years : cbp_parquet_path(geo, year) \in built
  /\ \A geo \in GeoSet, year \in Years : disk[cbp_parquet_path(geo, year)].data.v < remote

\* the directories a module downloads into and the ones it builds into
DownloadRoots(op) ==
  IF op = "cbp.cleanup" THEN {CBP_PATH.src, CBP_PATH.src_efsy}
  ELSE IF op = "agcensus.cleanup" THEN {AG_PATH.source}
  ELSE {QCEW_PATH.source}

ProcessedRoots(op) ==
  IF op = "cbp.cleanup" THEN {CBP_PATH.parquet, CBP_PATH.cbp_raw, CBP_PATH.cbp_panel, CBP_PATH.efsy}
  ELSE IF op = "agcensus.cleanup" THEN {AG_PATH.proc}
  ELSE {QCEW_PATH.proc}

Under(roots, p) == \E r \in roots : IsPrefix(r, p)

\* C10 - cleanup(remove_downloaded) of cbp, agcensus and qcew: with False
\* every downloaded source file of the module stays as it was and only
\* processed files go; with True the downloaded files go too; either way no
\* processed file of the module is left.
CleanupEffect ==
  [][(remote' = remote /\ last'.op \in {"cbp.cleanup", "agcensus.cleanup", "qcew.cleanup"})
     => \A p \in DOMAIN disk :
          /\ Under(ProcessedRoots(last'.op), p) => p \notin DOMAIN disk'
          /\ Under(DownloadRoots(last'.op), p)
             => IF last'.args[1] THEN p \notin DOMAIN disk'
                ELSE p \in DOMAIN disk' /\ disk'[p] = disk[p]
          /\ ~Under(ProcessedRoots(last'.op) \cup DownloadRoots(last'.op), p)
             => p \in DOMAIN disk' /\ disk'[p] = disk[p]]_vars

\* the processed file of the accessor call recorded in l
OwnFile(l) ==
  IF l.op = "get_cbp_raw" THEN cbp_raw_path(l.args[1], l.args[2])
  ELSE IF l.op = "cbp.get_df" THEN cbp_parquet_path(l.args[1], l.args[2])
  ELSE IF l.op = "get_cbp_year" THEN cbp_year_path(l.args[1])
  ELSE IF l.op = "get_efsy_year" THEN efsy_year_path(l.args[1])
  ELSE IF l.op = "_get_efsy_panel" THEN efsy_panel_path(l.args[1])
  ELSE IF l.op = "agcensus.get_df" THEN pq_part(l.args[1][1])
  ELSE qcew_part_path(l.args[1][1])

AccessorsOf(op) ==
  IF op = "cbp.cleanup" THEN {"get_cbp_raw", "cbp.get_df", "get_cbp_year", "get_efsy_year", "_get_efsy_panel"}
  ELSE IF op = "agcensus.cleanup" THEN {"agcensus.get_df"}
  ELSE {"qcew.get_df"}

\* C11 - cleanup completeness: when cleanup() of cbp, agcensus or qcew has
\* returned, no processed file of the module is on disk, and a call of a
\* cached accessor of the module that comes next finds no file of its own
\* and invokes its producer.
CleanupComplete ==
  [][(remote' = remote /\ last.op \in {"cbp.cleanup", "agcensus.cleanup", "qcew.cleanup"})
     => /\ \A p \in DOMAIN disk : ~Under(ProcessedRoots(last.op), p)
        /\ last'.op \in AccessorsOf(last.op)
           => /\ OwnFile(last') \notin DOMAIN disk
              /\ last'.invoked # <<>>
              /\ last'.invoked[1] = OwnFile(last')]_vars

\* the years whose partition of geo is on disk
PartitionYears(geo) == {y \in YearUniverse : cbp_parquet_path(geo, y) \in DOMAIN disk}

\* C12 - missing-partition tolerance: a call of cbp.get_parquet(geo) that
\* finds some partitions of geo on disk, every one of them a finished dump,
\* and meets no read fault, does not raise, invokes no producer, downloads
\* and writes nothing, leaves the disk as it was, and returns exactly one
\* block of rows for each partition that is present (and passes the year
\* filter, when one is given), with the year of its directory.
MissingPartitionTolerance ==
  [][\A geo \in GeoSet :
       (/\ remote' = remote
        /\ last'.op = "get_parquet"
        /\ last'.args[1] = geo
        /\ PartitionYears(geo) # {}
        /\ \A y \in PartitionYears(geo) : IsComplete(disk[cbp_parquet_path(geo, y)])
        /\ last'.err # "IOError")
       => /\ last'.err = NoErr
          /\ last'.invoked = <<>>
          /\ last'.downloaded = <<>>
          /\ last'.dumped = {}
          /\ disk' = disk
          /\ dirs' = dirs
          /\ last'.ret.data.parts =
               {[year |-> y, data |-> disk[cbp_parquet_path(geo, y)].data] :
                  y \in {z \in PartitionYears(geo) :
                           last'.args[3] = Nothing
                           \/ \A i \in 1..Len(last'.args[3].list) : z \in Range(last'.args[3].list[i].val)}}]_vars

\* get_parquet without a filter returned the one partition that is built,
\* the partition of the other year being absent
OnePartitionOfTwo ==
  /\ last.op = "get_parquet"
  /\ last.err = NoErr
  /\ last.args[3] = Nothing
  /\ Cardinality(last.ret.data.parts) = 1
  /\ PartitionYears(last.args[1]) = {2016}
  /\ cbp_parquet_path(last.args[1], 2016) \in built

\* the call recorded in l is a call of a source getter with a key that the
\* getter has no url for
UnknownKey(l) ==
  \/ l.op = "_get_cbp_src" /\ l.args[1] \notin {"us", "state", "county"}
  \/ l.op = "bea_io._get_src" /\ l.args[1] \notin {2022, 2023}
  \/ l.op = "naics.get_src" /\ l.args[1] \notin {1997, 2002, 2007, 2012, 2017, 2022}
  \/ l.op = "get_tract_src" /\ l.args[1] \notin {1990, 2000, 2010, 2020}
  \/ l.op = "get_county_src" /\ l.args \notin county_urls

\* C13 - unknown key: a call of a source getter (_get_cbp_src,
\* bea_io._get_src, naics.get_src, get_tract_src, get_county_src) with a key
\* it has no url for ends with an error that is not a download error,
\* returns no path, has downloaded nothing and leaves the disk and the
\* directories as they were, whatever fault a download would have met.
UnknownKeyFails ==
  [][(remote' = remote /\ UnknownKey(last'))
     => /\ last'.err \in {"UnboundLocalError", "AssertionError", "Exception"}
        /\ last'.ret = Nothing
        /\ last'.downloaded = <<>>
        /\ disk' = disk
        /\ dirs' = dirs]_vars

\* _get_cbp_src was called with a geography it has no url for, while the
\* file of a known geography of the same year is on disk
UnknownGeoAsked ==
  /\ last.op = "_get_cbp_src"
  /\ last.args[1] = "tract"
  /\ last.err # NoErr
  /\ cbp_src_path("county", last.args[2]) \in DOMAIN disk

\* the call of _get_cbp_src or _get_qs_src recorded in last: the local path
\* of its key, and the same call made again now, all going well
GetterPath ==
  IF last.op = "_get_cbp_src" THEN cbp_src_path(last.args[1], last.args[2])
  ELSE qs_src_path(last.args[1])

GetterAgain ==
  IF last.op = "_get_cbp_src" THEN _get_cbp_src(Enter("none"), last.args[1], last.args[2])
  ELSE _get_qs_src(Enter("none"), last.args[1])

\* C14 - failed download: when a call of _get_cbp_src or _get_qs_src has
\* ended with a download error, no file is at the local path of its key,
\* and the same call made now downloads the file.
NoPartialFile ==
  (last.op \in {"_get_cbp_src", "_get_qs_src"} /\ last.err = "DownloadError")
  => /\ GetterPath \notin DOMAIN disk
     /\ GetterAgain.downloaded = <<GetterPath>>

\* C15 - dump and load errors: a call of get_cbp_raw that finds its file
\* and ends with an error ends with the error of the load (an I/O error, or
\* the parquet error of a truncated file), has invoked no producer and
\* leaves the disk as it was; a truncated file is never read as a value nor
\* rebuilt.  A call that finds no file and ends with the I/O error of the
\* dump has invoked the producer once, returns nothing and records no dump;
\* a call that finds no file and returns has left a finished dump.
ErrorsPropagate ==
  [][\A geo \in GeoSet, year \in Years :
       LET p == cbp_raw_path(geo, year)
       IN (/\ remote' = remote
           /\ last'.op = "get_cbp_raw"
           /\ last'.args = <<geo, year>>)
          => /\ (p \in DOMAIN disk /\ last'.err # NoErr)
                => /\ last'.err \in {"IOError", "ArrowInvalid"}
                   /\ last'.invoked = <<>>
                   /\ last'.ret = Nothing
                   /\ disk' = disk
             /\ (p \in DOMAIN disk /\ ~IsComplete(disk[p]))
                => last'.err \in {"IOError", "ArrowInvalid"}
             /\ (p \notin DOMAIN disk /\ last'.err = "IOError")
                => /\ last'.invoked = <<p>>
                   /\ last'.ret = Nothing
                   /\ last'.dumped = {}
                   /\ p \in DOMAIN disk' => ~IsComplete(disk'[p])
             /\ (p \notin DOMAIN disk /\ last'.err = NoErr)
                => (p \in DOMAIN disk' /\ IsComplete(disk'[p]))]_vars

\* a dump was interrupted on a miss, and the call after it found the
\* truncated file and ended with the error of the load
LoadRaisedOnTruncatedDump ==
  /\ last.op = "get_cbp_raw"
  /\ last.err = "ArrowInvalid"
  /\ last.invoked = <<>>
  /\ ~IsComplete(disk[cbp_raw_path(last.args[1], last.args[2])])

\* the cache files of the keys of a builder loop, in the order of the loop
BuilderFiles(op) ==
  IF op = "build_all_parquet"
    THEN [i \in DOMAIN LoopKeys(1986, 2020) |->
            cbp_parquet_path(LoopKeys(1986, 2020)[i][2], LoopKeys(1986, 2020)[i][1])]
  ELSE [i \in DOMAIN LoopKeys(1986, 2022) |->
          cbp_raw_path(LoopKeys(1986, 2022)[i][2], LoopKeys(1986, 2022)[i][1])]

\* C16 - continue on error: a run of build_all_parquet or of
\* preproc_get_cbp_raw attempts every key of its loop, also when a key
\* before it failed: for each key, the file was found or its producer was
\* invoked.
BuilderContinues ==
  [][(remote' = remote /\ last'.op \in {"build_all_parquet", "preproc_get_cbp_raw"})
     => \A i \in DOMAIN BuilderFiles(last'.op) :
          \/ BuilderFiles(last'.op)[i] \in DOMAIN disk
          \/ \E j \in 1..Len(last'.invoked) : last'.invoked[j] = BuilderFiles(last'.op)[i]]_vars

\* the last component of the url that the producer of the call recorded
\* in l reads its data from
SourceName(l) ==
  IF l.op = "get_cbp_raw"
    THEN "cbp" \o yr(l.args[2])
           \o (IF l.args[1] = "us" THEN "us" ELSE IF l.args[1] = "state" THEN "st" ELSE "co") \o ".zip"
  ELSE IF l.op = "get_efsy_year" THEN "efsy_" \o ToString(l.args[1]) \o ".zip"
  ELSE "efsy_panel_" \o l.args[1] \o ".csv.zip"

\* the paths the function of the call recorded in l renders for other keys
OtherFiles(l) ==
  IF l.op = "get_cbp_raw"
    THEN {cbp_raw_path(geo, year) : <<geo, year>> \in (KeyGeos \X KeyYears) \ {l.args}}
  ELSE IF l.op = "get_efsy_year" THEN {efsy_year_path(year) : year \in KeyYears \ {l.args[1]}}
  ELSE {efsy_panel_path(industry) : industry \in {"native", "naics"} \ {l.args[1]}}

\* C17 - key to path: a call of get_cbp_raw, get_efsy_year or _get_efsy_panel
\* works on one file, whose path is made from the arguments alone and is
\* the path of no other key of the function: a miss writes that file and no
\* other, a hit returns what that file holds, and the value returned was
\* made from the source of the call's own key, whatever files of other keys
\* are on disk.
KeyToPath ==
  [][(remote' = remote /\ last'.op \in {"get_cbp_raw", "get_efsy_year", "_get_efsy_panel"})
     => /\ OwnFile(last') \notin OtherFiles(last')
        /\ last'.dumped \subseteq {OwnFile(last')}
        /\ \A p \in DOMAIN disk : p # OwnFile(last') => (p \in DOMAIN disk' /\ disk'[p] = disk[p])
        /\ last'.err = NoErr
           => /\ last'.ret.data.url[Len(last'.ret.data.url)] = SourceName(last')
              /\ OwnFile(last') \in DOMAIN disk => last'.ret = read_parquet(disk[OwnFile(last')])
              /\ OwnFile(last') \notin DOMAIN disk => last'.dumped = {OwnFile(last')}]_vars

\* get_cbp_raw("county", 2016) read its file while the files of the same
\* year for "us" and of the same geography for 2015 were on disk
HitAmongNeighbours ==
  /\ last.op = "get_cbp_raw"
  /\ last.args = <<"county", 2016>>
  /\ last.err = NoErr
  /\ last.invoked = <<>>
  /\ cbp_raw_path("us", 2016) \in DOMAIN disk
  /\ cbp_raw_path("county", 2015) \in DOMAIN disk

\* C18 - benign build race: when the calls of get_cbp_raw that two
\* processes made for the same key have both ended, neither has raised,
\* both returned equal tables, and the cache file is a finished dump of the
\* table they returned.
BenignRace ==
  (\A i \in Procs : procs[i].pc = "done")
  => /\ \A i \in Procs : procs[i].err = NoErr
     /\ \A i, j \in Procs : procs[i].ret = procs[j].ret
     /\ RaceFile \in DOMAIN disk
     /\ \A i \in Procs : disk[RaceFile] = to_parquet(procs[i].ret)

\* C19 - a result or an error: a call of get_wage that ends without an
\* exception has returned a table, whatever geography it was called with.
ResultOrError ==
  (last.op = "get_wage" /\ last.err = NoErr) => last.ret # Nothing

\* C20 - cleanup, then get_df: whatever the disk holds before, a run of
\* agcensus.test_get_df(redownload) that meets no fault of its own leaves a
\* finished partition file for each of the years it asks for; and with
\* redownload False it downloads no source file that was on disk before.
CleanupThenGetDf ==
  [][(remote' = remote /\ last'.op = "agcensus.test_get_df")
     => /\ \A year \in AG_PQ_PART :
             pq_part(year) \in DOMAIN disk' /\ IsComplete(disk'[pq_part(year)])
        /\ ~last'.args[1]
           => \A year \in AG_PQ_PART :
                qs_src_path(year) \in DOMAIN disk
                => \A j \in 1..Len(last'.downloaded) : last'.downloaded[j] # qs_src_path(year)]_vars

\* what the claim says an item of a list of codes stands for
Expansion(it) ==
  IF it.b < 0 THEN <<ToString(it.a)>>
  ELSE [i \in 1..((it.a \div 10) * 10 + it.b - it.a + 1) |-> ToString(it.a + i - 1)]

RECURSIVE Expansions(_)
Expansions(items) ==
  IF items = <<>> THEN <<>> ELSE Expansion(Head(items)) \o Expansions(Tail(items))

\* C21 - _split_codes: on a list of items separated by ", ", each a code or
\* a range a-b with b one digit, the call returns, in the order of the
\* list, the codes of every item: the code itself, or every integer from a
\* up to a with its last digit replaced by b, both ends included, as
\* strings.
SplitCodesExpands ==
  (last.op = "_split_codes" /\ \A i \in DOMAIN last.args[1] : last.args[1][i].b <= 9)
  => /\ last.err = NoErr
     /\ last.ret = Expansions(last.args[1])

\* a list of a range of several codes and a code that follows it
RangeThenCode ==
  /\ last.op = "_split_codes"
  /\ Len(last.args[1]) = 2
  /\ last.args[1][1].b > last.args[1][1].a % 10
  /\ last.args[1][2].b < 0
  /\ last.err = NoErr
  /\ Len(last.ret) > 2
  /\ last.ret[Len(last.ret)] = ToString(last.args[1][2].a)

\* C22 - init again: a run of index.init that follows a run which returned,
\* with no other change to the tree in between, and in which neither the
\* creation of a link nor the submodule's init is struck by a fault,
\* returns too, and leaves the two links where they were, each a symlink to
\* the target it pointed to after the first run.
InitAgain ==
  [][(/\ last.op = "index.init"
      /\ last.err = NoErr
      /\ last'.op = "index.init"
      /\ last'.err \notin {"OSError", "ResengError"})
     => /\ last'.err = NoErr
        /\ \A i \in DOMAIN INDEX_LINKS :
             /\ INDEX_LINKS[i].link \in DOMAIN disk
             /\ INDEX_LINKS[i].link \in DOMAIN disk'
             /\ disk'[INDEX_LINKS[i].link] = disk[INDEX_LINKS[i].link]
             /\ disk'[INDEX_LINKS[i].link] = [symlink |-> INDEX_LINKS[i].targ]
        /\ dirs' = dirs]_vars

\* index.init has returned twice in a row
InitRanTwice ==
  /\ last.op = "index.init"
  /\ last.err = NoErr
  /\ last.args = <<"index.init", NoErr>>
  /\ \A i \in DOMAIN INDEX_LINKS : is_dir(Enter("none"), INDEX_LINKS[i].link)

\* the path that the decorator renders for the call recorded in l
DecoratorPath(l) ==
  IF l.op = "get_cbp_raw_pq" THEN cbp_raw_path(l.args[1], l.args[2]) ELSE cbp_year_path(l.args[1])

\* C23 - path getters: the path get_cbp_raw_pq and get_cbp_year_pq make by
\* hand is the path the decorator renders for the same key.  A call never
\* ends with a failed assert; a call that returns returns that path and a
\* file is there; a call that finds the file invokes no producer, leaves
\* the disk as it was and returns.
PathGetters ==
  [][(remote' = remote /\ last'.op \in {"get_cbp_raw_pq", "get_cbp_year_pq"})
     => /\ \A geo \in KeyGeos, year \in KeyYears : cbp_raw_pq_path(geo, year) = cbp_raw_path(geo, year)
        /\ \A year \in KeyYears : cbp_year_pq_path(year) = cbp_year_path(year)
        /\ last'.err # "AssertionError"
        /\ last'.err = NoErr
           => /\ last'.ret = DecoratorPath(last')
              /\ last'.ret \in DOMAIN disk'
        /\ DecoratorPath(last') \in DOMAIN disk
           => /\ last'.err = NoErr
              /\ last'.invoked = <<>>
              /\ disk' = disk]_vars

\* get_cbp_year_pq built the panel file of the year and returned its path
PanelPathBuilt ==
  /\ last.op = "get_cbp_year_pq"
  /\ last.err = NoErr
  /\ last.ret \in last.dumped
  /\ \E i \in 1..Len(last.invoked) : last.invoked[i] = last.ret

\* the directories that hold cache files
CacheRoots ==
  {CBP_PATH.cbp_raw, CBP_PATH.parquet, CBP_PATH.cbp_panel, CBP_PATH.efsy, GEO_PATH.state}

\* C24 - no partial-file hit: every file that exists under a cache
\* directory is a finished dump, also after a dump that raised part-way and
\* while a process is writing, and no call, of the session or of a process
\* running beside another, ends with the error of reading a truncated file.
NoPartialHit ==
  /\ \A p \in DOMAIN disk : Under(CacheRoots, p) => IsComplete(disk[p])
  /\ last.err # "ArrowInvalid"
  /\ \A i \in Procs : procs[i].err # "ArrowInvalid"

\* the predicates the caller put into the list it keeps
OwnFilters(h) == [list |-> SelectSeq(h.list, LAMBDA f : f.col # "year")]

\* what the store under root holds for the years asked for and the caller's
\* own predicates
RowsAsked(root, l) ==
  read_dataset([Enter("none") EXCEPT !.disk = disk', !.dirs = dirs'], root, l.args[2],
               with_year_filter(OwnFilters(l.args[3]), l.args[1])).ret.data.rows

\* C25 - the caller's filters list: a call of get_df of agcensus or qcew
\* leaves the list that was passed as filters as it was, and a call that
\* returns returns the rows of the years it was called with that satisfy
\* the predicates the caller put into the list, also when the list was
\* passed to an earlier call with other years.
FiltersUnchanged ==
  [][(remote' = remote /\ last'.op \in {"agcensus.get_df", "qcew.get_df"})
     => /\ held' = held
        /\ last'.err = NoErr
           => last'.ret.data.rows =
                RowsAsked(IF last'.op = "agcensus.get_df" THEN AG_PATH.proc ELSE QCEW_PATH.proc, last')]_vars

\* C26 - get_efsy_panel: a call that returns returns what the panel file
\* holds after the call, all of it when filters is None and otherwise
\* exactly its rows that satisfy filters, whether the call found the file
\* or built it; the same call made again returns an equal table; the
\* producer is invoked once by a call that finds no file and not at all by
\* a call that finds it.
PanelEquivalence ==
  [][\A industry \in {"native", "naics"} :
       LET p == efsy_panel_path(industry)
       IN (/\ remote' = remote
           /\ last'.op = "get_efsy_panel"
           /\ last'.args[1] = industry
           /\ last'.err = NoErr)
          => /\ p \in DOMAIN disk'
             /\ IsComplete(disk'[p])
             /\ last'.ret.data.rows = {r \in disk'[p].data.rows : Passes(last'.args[2], r)}
             /\ [last'.ret EXCEPT !.data.rows = disk'[p].data.rows] = read_parquet(disk'[p])
             /\ get_efsy_panel([Enter("none") EXCEPT !.disk = disk', !.dirs = dirs'],
                               industry, last'.args[2]).ret = last'.ret
             /\ p \in DOMAIN disk => (last'.invoked = <<>> /\ disk' = disk)
             /\ p \notin DOMAIN disk => last'.invoked = <<p>>]_vars

\* get_efsy_panel built the panel file and returned a part of its rows
PanelBuiltAndFiltered ==
  /\ last.op = "get_efsy_panel"
  /\ last.err = NoErr
  /\ last.invoked # <<>>
  /\ last.args[2] # Nothing
  /\ last.ret.data.rows # {}
  /\ last.ret.data.rows # disk[efsy_panel_path(last.args[1])].data.rows

\* the years and states that a call of get_tract_df asks for
AskedYears(l) == IF l.args[1] = Nothing THEN Range(TRACT_YEARS) ELSE Range(l.args[1].list)
AskedStates(l) == IF l.args[2] = Nothing THEN Range(STATE_CODES) ELSE Range(l.args[2].list)

TractFiles == {p \in DOMAIN disk : IsPrefix(GEO_PATH.tract, p)}

\* C27 - get_tract_df: when a call returns, the partition file of every
\* year and state it asked for exists (all four years, all states, where
\* the argument was left out); every partition that was there before is as
\* it was and its producer was not invoked; and the result holds one block
\* of rows for each pair asked for, made of that pair's partition, and
\* none for any other partition on disk.
TractStore ==
  [][(remote' = remote /\ last'.op = "get_tract_df" /\ last'.err = NoErr)
     => /\ \A y \in AskedYears(last'), sc \in AskedStates(last') : tract_part_path(y, sc) \in DOMAIN disk'
        /\ \A p \in TractFiles :
             /\ p \in DOMAIN disk' /\ disk'[p] = disk[p]
             /\ \A i \in 1..Len(last'.invoked) : last'.invoked[i] # p
        /\ last'.ret.data.parts =
             {[YEAR |-> y, STATE_CODE |-> sc, data |-> disk'[tract_part_path(y, sc)].data] :
                y \in AskedYears(last'), sc \in AskedStates(last')}]_vars

\* get_tract_df([2010, 2020], ["55"]) built one partition and found the
\* other, while a partition of another state was on disk
TractBuiltOneFoundOne ==
  /\ last.op = "get_tract_df"
  /\ last.err = NoErr
  /\ last.args[1] = [list |-> <<2010, 2020>>]
  /\ last.args[2] = [list |-> <<"55">>]
  /\ last.invoked = <<tract_part_path(2010, "55")>>
  /\ tract_part_path(2020, "56") \in DOMAIN disk
  /\ Cardinality(last.ret.data.parts) = 2


(***************************************************************************)
(* The wage tables of get_wage.                                            *)
(***************************************************************************)
\* qp1 / emp * 4000 of a row of a raw file lies in [0.1, 1e9]
OwnInRange(r) ==
  /\ r.emp > 0
  /\ r.emp <= r.qp1 * 40000
  /\ \/ r.qp1 \div r.emp < 250000
     \/ r.qp1 \div r.emp = 250000 /\ r.qp1 % r.emp = 0

\* the rows that the raw file of a level holds in the area and the industry
\* of a row of a wage table
RawRows(geo, r, naics) ==
  {x \in disk[cbp_raw_pq_path(geo, WageYear)].data.rows :
     /\ x.naics = naics
     /\ geo \in {"state", "county"} => x.fipstate = r.fipstate
     /\ geo = "county" => x.fipscty = r.fipscty}

\* the first level, from the level of the table to the nation, at which the
\* row's industry has a wage that ok accepts
Supplier(ok(_), geo, r) ==
  LET has(g, naics) == \E x \in RawRows(g, r, naics) : ok(x)
  IN IF geo = "county" /\ has("county", r.naics) THEN "county-industry"
     ELSE IF geo \in {"county", "state"} /\ has("state", r.naics) THEN "state-industry"
     ELSE IF has("us", r.naics) THEN "nation-industry"
     ELSE IF has("us", SubSeq(r.naics, 1, 2) \o "----") THEN "nation-sector"
     ELSE "nation"

\* C28 - the wage fallback chain: a call of get_wage for the nation, the
\* states or the counties returns (the range assertions before return never
\* fail), every wage of its table lies in [0.1, 1e9], and wage_f of every
\* row names the level that supplied the wage: the level of the table when
\* the row's own qp1 / emp * 4000 is in range, otherwise the flag of the
\* next broader level in the order county-industry, state-industry,
\* nation-industry, nation-sector, nation.
WageChain ==
  last.op = "get_wage" =>
    /\ last.err = NoErr
    /\ \A r \in last.ret.data.rows :
         /\ 1 <= r.wage /\ r.wage <= 1000000000
         /\ r.wage_f = Supplier(OwnInRange, last.args[1], r)

====
